---- MODULE Spec2Model ----
(***************************************************************************)
(* Model of the multi-agent generation pipeline of cognitiontwo:           *)
(*   - runAgentCrew / synthesizeResults (server/agents/orchestrator.ts)    *)
(*   - documentIntelligenceAgent, businessStrategyAgent and                *)
(*     financialAnalystAgent (their execute methods)                       *)
(*                                                                         *)
(* Text returned by the text-generation service is a sequence of tokens.   *)
(* The tokens keep what the code looks at: braces, whitespace, the         *)
(* markdown fence and the word "json" after it, and what JSON.parse looks  *)
(* at: scalars and null.  An object is written as an opening brace, its   *)
(* members and a closing brace; a member stands for one key/value pair.   *)
(***************************************************************************)
EXTENDS Integers, Sequences, FiniteSets, TLC

\* ------------------------------------------------------------------ bounds
MaxLen == 4      \* longest response text enumerated by SpecRecovery
MaxDocLen == 2   \* longest documentContent enumerated by Spec

\* ------------------------------------------------------------------ tokens
LBRACE == "{"
RBRACE == "}"
WS == " "        \* one whitespace character
FENCE == "f"     \* the three-backtick markdown fence
JSONWORD == "j"  \* the word json (a fence followed by it is the json fence)
PROSE == "p"     \* any other text; never part of a JSON document
SCALAR == "1"    \* a truthy JSON scalar (number, string, true)
NULLTOK == "n"   \* the JSON literal null

Tokens == {LBRACE, RBRACE, WS, FENCE, JSONWORD, PROSE, SCALAR, NULLTOK}

TextsUpTo(n) == UNION {[1..k -> Tokens] : k \in 0..n}

\* ------------------------------------------------------- string primitives
RECURSIVE trimStart(_)
trimStart(t) == IF t # <<>> /\ Head(t) = WS THEN trimStart(Tail(t)) ELSE t

RECURSIVE trimEnd(_)
trimEnd(t) ==
  IF t # <<>> /\ t[Len(t)] = WS THEN trimEnd(SubSeq(t, 1, Len(t) - 1)) ELSE t

\* String.prototype.trim
trim(t) == trimEnd(trimStart(t))

\* String.prototype.startsWith
startsWith(t, prefix) ==
  Len(t) >= Len(prefix) /\ SubSeq(t, 1, Len(prefix)) = prefix

\* String.prototype.endsWith
endsWith(t, suffix) ==
  Len(t) >= Len(suffix) /\ SubSeq(t, Len(t) - Len(suffix) + 1, Len(t)) = suffix

\* String.prototype.slice(from, to) with 0-based, end-exclusive indices
slice(t, from, to) == SubSeq(t, from + 1, to)

\* String.prototype.indexOf for one character: 0-based, -1 when absent
indexOf(t, c) ==
  IF \E i \in 1..Len(t) : t[i] = c
  THEN (CHOOSE i \in 1..Len(t) : t[i] = c /\ \A k \in 1..(i - 1) : t[k] # c) - 1
  ELSE -1

\* String.prototype.lastIndexOf for one character: 0-based, -1 when absent
lastIndexOf(t, c) ==
  IF \E i \in 1..Len(t) : t[i] = c
  THEN (CHOOSE i \in 1..Len(t) : t[i] = c /\ \A k \in (i + 1)..Len(t) : t[k] # c) - 1
  ELSE -1

\* ---------------------------------------------------------------- JSON.parse
RECURSIVE SkipWs(_, _)
SkipWs(t, i) == IF i <= Len(t) /\ t[i] = WS THEN SkipWs(t, i + 1) ELSE i

\* ValueEnd(t, i): the index just after the JSON value that starts at i
\* (leading whitespace skipped), 0 when no value starts there.
\* MembersEnd(t, i): the same for the rest of an object whose "{" was read.
RECURSIVE ValueEnd(_, _), MembersEnd(_, _)
ValueEnd(t, i) ==
  LET k == SkipWs(t, i) IN
  IF k > Len(t) THEN 0
  ELSE IF t[k] \in {SCALAR, NULLTOK} THEN k + 1
  ELSE IF t[k] = LBRACE THEN MembersEnd(t, k + 1)
  ELSE 0

MembersEnd(t, i) ==
  LET k == SkipWs(t, i) IN
  IF k > Len(t) THEN 0
  ELSE IF t[k] = RBRACE THEN k + 1
  ELSE LET e == ValueEnd(t, k) IN IF e = 0 THEN 0 ELSE MembersEnd(t, e)

IsValidJSON(t) ==
  LET e == ValueEnd(t, 1) IN e # 0 /\ SkipWs(t, e) = Len(t) + 1

\* JSON.parse: the parsed value (the document without insignificant
\* whitespace) or a SyntaxError.
JSONParse(t) ==
  IF IsValidJSON(t)
  THEN [ok |-> TRUE, value |-> SelectSeq(t, LAMBDA c : c # WS)]
  ELSE [ok |-> FALSE, value |-> <<>>]

\* ------------------------------------------------------------ agent outputs
DocName == "Document Intelligence Agent"
StrategyName == "Business Strategy Agent"
FinancialName == "Financial Analyst Agent"

\* A value JSON.parse returned, cast to the output type without any check.
Parsed(v) == [origin |-> "parsed", value |-> v]

\* The value of a missing key of previousAgentOutputs.
Undefined == [origin |-> "undefined"]

\* A rejected promise / thrown exception in place of a value.
Threw == [origin |-> "threw"]

\* documentContent is optional: absent, or a string over blank and non-blank
\* characters.
NoDocument == [present |-> FALSE, text |-> <<>>]
Document(t) == [present |-> TRUE, text |-> t]
DocChars == {WS, "d"}
DocContents ==
  {NoDocument} \cup {Document(t) : t \in UNION {[1..k -> DocChars] : k \in 0..MaxDocLen}}

\* The early return of documentIntelligenceAgent.execute.
NoDocumentOutput ==
  [origin |-> "early", agentName |-> DocName, confidence |-> 0,
   insights |-> <<"No document uploaded - analysis based on form inputs only">>,
   structuredData |-> [keyFindings |-> <<>>, relevantMetrics |-> <<>>,
                       strategicImplications |-> <<>>, riskFactors |-> <<>>,
                       opportunities |-> <<>>]]

\* The fallback objects built in the catch blocks (confidence in tenths).
DocumentFallback(content) ==
  [origin |-> "fallback", agentName |-> DocName, confidence |-> 5,
   insights |-> <<"Document was processed but some details may be incomplete due to parsing issues">>,
   structuredData |->
     [keyFindings |-> <<[note |-> "content length", n |-> Len(content.text)],
                        [note |-> "document name", n |-> 0]>>,
      relevantMetrics |-> <<>>,
      strategicImplications |-> <<"Full document analysis should be reviewed manually">>,
      riskFactors |-> <<"Automated extraction incomplete - manual review recommended">>,
      opportunities |-> <<"Document contains information relevant to AI transformation strategy">>]]

StrategyFallback ==
  [origin |-> "fallback", agentName |-> StrategyName, confidence |-> 5,
   insights |-> <<"Analysis completed - manual review recommended">>,
   structuredData |->
     [cognitiveNodes |-> <<[name |-> "Manual Process Review",
                            agenticPattern |-> "Orchestrator",
                            automationPotential |-> 60]>>,
      jaggedFrontier |-> <<"Process automation opportunities identified">>]]

FinancialFallback ==
  [origin |-> "fallback", agentName |-> FinancialName, confidence |-> 5,
   insights |-> <<"Financial projections calculated - manual review recommended">>,
   structuredData |->
     [useCases |-> <<[title |-> "Process Automation Initiative", horizon |-> "H1",
                      currentCost |-> 500000, projectedSavings |-> 200000,
                      implementationCost |-> 100000, trustTaxPercent |-> 25,
                      lcoai |-> 5, paybackMonths |-> 6]>>,
      totalCurrentCost |-> 500000, totalProjectedSavings |-> 200000,
      overallROI |-> 100]]

\* ---------------------------------------------- Structured-Output Recovery
\* Fence stripping: trim, drop a leading json fence, drop a leading fence,
\* drop a trailing fence.
StripFences(text) ==
  LET r0 == trim(text)
      r1 == IF startsWith(r0, <<FENCE, JSONWORD>>) THEN slice(r0, 2, Len(r0)) ELSE r0
      r2 == IF startsWith(r1, <<FENCE>>) THEN slice(r1, 1, Len(r1)) ELSE r1
      r3 == IF endsWith(r2, <<FENCE>>) THEN slice(r2, 0, Len(r2) - 1) ELSE r2
  IN r3

\* response.slice(jsonStart, jsonEnd + 1)
ExtractedOffByOne(response, jsonStart, jsonEnd) == slice(response, jsonStart, jsonEnd)
Extracted(response, jsonStart, jsonEnd) == slice(response, jsonStart, jsonEnd + 1)

\* The inner try/catch: parse the extracted substring, fall through to the
\* fallback object when that parse throws.
ParseExtractedUncaught(extracted, fallback) ==
  LET second == JSONParse(extracted) IN
  IF second.ok THEN Parsed(second.value) ELSE Threw
ParseExtracted(extracted, fallback) ==
  LET second == JSONParse(extracted) IN
  IF second.ok THEN Parsed(second.value) ELSE fallback

\* The recovery ladder shared (as three verbatim copies) by the three agents.
RecoverAgent(text, fallback) ==
  LET response == trim(StripFences(text))
      strict == JSONParse(response)
  IN IF strict.ok THEN Parsed(strict.value)
     ELSE LET jsonStart == indexOf(response, LBRACE)
              jsonEnd == lastIndexOf(response, RBRACE)
          IN IF jsonStart # -1 /\ jsonEnd > jsonStart
             THEN ParseExtracted(Extracted(response, jsonStart, jsonEnd), fallback)
             ELSE fallback

documentRecover(text, content) == RecoverAgent(text, DocumentFallback(content))
strategyRecover(text) == RecoverAgent(text, StrategyFallback)
financialRecover(text) == RecoverAgent(text, FinancialFallback)

\* synthesizeResults: the same fence stripping, then one strict parse whose
\* SyntaxError is not caught.
synthesisRecoverWithDefault(text) ==
  LET strict == JSONParse(trim(StripFences(text))) IN
  IF strict.ok THEN Parsed(strict.value)
  ELSE [origin |-> "fallback", agentName |-> "Executive Orchestrator"]
synthesisRecover(text) ==
  LET strict == JSONParse(trim(StripFences(text))) IN
  IF strict.ok THEN Parsed(strict.value) ELSE Threw

\* ------------------------------------------------------- shape of a value
\* The structuredData member of a parsed object is its first member that is
\* itself an object; it carries its list fields when it has a member.
\* index of the first member of the object v that is itself an object, 0 if none
NestedAt(v) ==
  IF \E i \in 2..Len(v) : v[i] = LBRACE
  THEN CHOOSE i \in 2..Len(v) : v[i] = LBRACE /\ \A k \in 2..(i - 1) : v[k] # LBRACE
  ELSE 0

Shape(out) ==
  IF out.origin \in {"early", "fallback"} THEN "full"
  ELSE IF out.origin # "parsed" THEN "undefined"
  ELSE IF out.value = <<NULLTOK>> THEN "null"
  ELSE IF out.value = <<SCALAR>> THEN "scalar"
  ELSE LET k == NestedAt(out.value) IN
       IF k = 0 THEN "bare"
       ELSE IF out.value[k + 1] = RBRACE THEN "nolists"
       ELSE "full"

\* JavaScript truthiness of a map entry.
Truthy(out) == Shape(out) \notin {"undefined", "null"}

\* ------------------------------------------------- text-generation service
\* What anthropic.messages.create can do to its caller: reject, answer with
\* a first content block that is not text (or no block), or answer with text.
ServiceError == [kind |-> "error", text |-> <<>>]
NonText == [kind |-> "nontext", text |-> <<>>]
\* a rejection that carries a throttling / quota signal (HTTP 429)
RateLimited == [kind |-> "ratelimit", text |-> <<>>]
TextResponse(t) == [kind |-> "text", text |-> t]

WellFormed == <<LBRACE, LBRACE, SCALAR, RBRACE, RBRACE>>
PipelineTexts ==
  { WellFormed,                                        \* the requested document
    <<PROSE, WS>> \o WellFormed \o <<WS, PROSE>>,      \* wrapped in prose
    <<FENCE, JSONWORD, WS>> \o WellFormed \o <<WS, FENCE>>, \* fenced
    <<LBRACE, RBRACE, PROSE, LBRACE, RBRACE>>,         \* two documents, prose between
    <<PROSE>>,                                         \* no document at all
    <<LBRACE, SCALAR, RBRACE>>,                        \* object without structuredData
    <<LBRACE, LBRACE, RBRACE, RBRACE>>,                \* structuredData without lists
    <<NULLTOK>>,                                       \* null
    <<SCALAR>> }                                       \* a scalar
Responses == {ServiceError, RateLimited, NonText} \cup {TextResponse(t) : t \in PipelineTexts}

\* -------------------------------------------------------------------- state
VARIABLES
  pc,                   \* where runAgentCrew is suspended, or how it settled
  documentContent,      \* context.documentContent
  previousAgentOutputs, \* context.previousAgentOutputs
  docPromise,           \* documentIntelligenceAgent.execute(context)
  strategyPromise,      \* first element of the Promise.all array
  financialPromise,     \* second element of the Promise.all array
  synthesisPromise,     \* synthesizeResults(...)
  synthMessage,         \* message, the answer to the synthesis call
  docOutput, strategyOutput, financialOutput, synthesis, \* locals of runAgentCrew
  finStrategyAgent,     \* strategyAgent as read by financialAnalystAgent.execute
  invocations,          \* how often each agent / stage was invoked
  genCalls,             \* calls of anthropic.messages.create per agent / stage
  settled,              \* the concurrent agents in the order they settled
  throttled,            \* the stages whose generation call was throttled
  result,               \* the CrewAnalysisResult runAgentCrew resolved with
  rtext, rwho, rres,    \* recovery applied alone: text, component, outcome
  cfn,                  \* the retrying client function that was called
  cstatus,              \* idle, pending (attempt in flight), backoff, settled
  cattempts,            \* calls of anthropic.messages.create made by pRetry
  cfailures,            \* isRateLimitError's verdict on each failed attempt
  cvalue,               \* what the client function resolved or rejected with
  crewResult,           \* the CrewAnalysisResult given to the normalizer
  npc,                  \* the /api/analyze handler around the normalizer
  fused,                \* crewAnalysis: what convertCrewResultToAnalysis returned
  routeUseCases,        \* useCases as the route maps them to the stored schema
  routeNodes,           \* cognitiveNodes as the route maps them
  hpc,                  \* where the /api/analyze handler is
  request,              \* the body of the request the handler serves
  expired,              \* the timer behind timeoutPromise has fired
  saveState,            \* storage.createAnalysis of the handler: none, pending, saved, failed
  resStatus,            \* the status the handler answered with, 0 before
  wpc,                  \* where generateAnalysisWithToneEdit is
  rawAnalysis,          \* rawAnalysis, the text generateAnalysis resolved with
  wvalue,               \* what generateAnalysisWithToneEdit resolved or rejected with
  toneCalls,            \* calls of applyToneEditor
  analyses,             \* the rows of the analyses table
  lastDelete,           \* the last DELETE /api/analyses/:id: its arguments, result and status
  ppc,                  \* currentPhase of the report builder page
  reqNo,                \* the number of analyze requests the page has sent
  srv,                  \* the handler of each request the page sent: running, saved, done, failed
  clock,                \* the time, in minutes
  shown,                \* analysisResult: the request whose analysis is displayed
  browserInstance,      \* the shared browser of the PDF generator, 0 for null
  puppeteerAvailable,   \* the cached answer of checkPuppeteerAvailable
  chromiumExists,       \* whether the Chromium executable is on disk
  browsers,             \* the state of every browser launched so far
  pdfCalls              \* the position of every generatePdf call made so far

pipelineVars == <<pc, documentContent, previousAgentOutputs, docPromise,
                  strategyPromise, financialPromise, synthesisPromise, synthMessage,
                  docOutput, strategyOutput, financialOutput, synthesis,
                  finStrategyAgent, invocations, genCalls, settled, throttled,
                  result>>
recoveryVars == <<rtext, rwho, rres>>
clientVars == <<cfn, cstatus, cattempts, cfailures, cvalue>>
normalizerVars == <<crewResult, npc, fused, routeUseCases, routeNodes>>
routeVars == <<hpc, request, expired, saveState, resStatus>>
wrapperVars == <<wpc, rawAnalysis, wvalue, toneCalls>>
storageVars == <<analyses, lastDelete>>
pageVars == <<ppc, reqNo, srv, clock, shown>>
pdfVars == <<browserInstance, puppeteerAvailable, chromiumExists, browsers,
             pdfCalls>>
laterVars == <<routeVars, wrapperVars, storageVars, pageVars, pdfVars>>
nonPipelineVars == <<recoveryVars, clientVars, normalizerVars, routeVars,
                     wrapperVars, storageVars, pageVars, pdfVars>>
nonRecoveryVars == <<pipelineVars, clientVars, normalizerVars, routeVars,
                     wrapperVars, storageVars, pageVars, pdfVars>>
nonClientVars == <<pipelineVars, recoveryVars, normalizerVars, routeVars,
                   wrapperVars, storageVars, pageVars, pdfVars>>
nonNormalizerVars == <<pipelineVars, recoveryVars, clientVars, routeVars,
                       wrapperVars, storageVars, pageVars, pdfVars>>
nonRouteVars == <<pipelineVars, recoveryVars, clientVars, normalizerVars,
                  wrapperVars, storageVars, pageVars, pdfVars>>
nonWrapperVars == <<pipelineVars, recoveryVars, clientVars, normalizerVars,
                    routeVars, storageVars, pageVars, pdfVars>>
nonStorageVars == <<pipelineVars, recoveryVars, clientVars, normalizerVars,
                    routeVars, wrapperVars, pageVars, pdfVars>>
nonPageVars == <<pipelineVars, recoveryVars, clientVars, normalizerVars,
                 routeVars, wrapperVars, storageVars, pdfVars>>
nonPdfVars == <<pipelineVars, recoveryVars, clientVars, normalizerVars,
                routeVars, wrapperVars, storageVars, pageVars>>
nonClientWrapperVars == <<pipelineVars, recoveryVars, normalizerVars,
                          routeVars, storageVars, pageVars, pdfVars>>
nonStoragePageVars == <<pipelineVars, recoveryVars, clientVars,
                        normalizerVars, routeVars, wrapperVars, pdfVars>>
vars == <<pipelineVars, recoveryVars, clientVars, normalizerVars, laterVars>>

SynthName == "Executive Orchestrator"
AgentNames == {DocName, StrategyName, FinancialName}
Stages == AgentNames \cup {SynthName}
NoResult == [origin |-> "none"]

\* promises
NotStarted == [state |-> "idle", value |-> Undefined]
Pending == [state |-> "pending", value |-> Undefined]
Fulfilled(v) == [state |-> "fulfilled", value |-> v]
Rejected == [state |-> "rejected", value |-> Threw]
Settled(p) == p.state \in {"fulfilled", "rejected"}

PipelineInit ==
  /\ pc = "start"
  /\ previousAgentOutputs = [n \in AgentNames |-> Undefined]
  /\ docPromise = NotStarted /\ strategyPromise = NotStarted
  /\ financialPromise = NotStarted /\ synthesisPromise = NotStarted
  /\ synthMessage = [kind |-> "none", text |-> <<>>]
  /\ docOutput = Undefined /\ strategyOutput = Undefined
  /\ financialOutput = Undefined /\ synthesis = Undefined
  /\ finStrategyAgent = Undefined
  /\ invocations = [s \in Stages |-> 0]
  /\ genCalls = [s \in Stages |-> 0]
  /\ settled = <<>>
  /\ throttled = {}
  /\ result = NoResult

\* No client function has been called.
ClientIdle ==
  /\ cfn = "none"
  /\ cstatus = "idle"
  /\ cattempts = 0
  /\ cfailures = <<>>
  /\ cvalue = [ok |-> FALSE, value |-> <<>>, error |-> <<>>, abort |-> FALSE]

\* The normalizer has not been applied.
NormalizerIdle ==
  /\ crewResult = Undefined
  /\ npc = "idle"
  /\ fused = Undefined
  /\ routeUseCases = <<>>
  /\ routeNodes = <<>>

RecoveryIdle ==
  /\ rtext = <<>>
  /\ rwho = "none"
  /\ rres = Undefined

\* No request has reached the /api/analyze handler.
RouteIdle ==
  /\ hpc = "idle"
  /\ request = [valid |-> FALSE, saveAnalysis |-> FALSE, ownerToken |-> FALSE]
  /\ expired = FALSE
  /\ saveState = "none"
  /\ resStatus = 0

\* generateAnalysisWithToneEdit has not been called.
WrapperIdle ==
  /\ wpc = "idle"
  /\ rawAnalysis = <<>>
  /\ wvalue = [ok |-> FALSE, value |-> <<>>, error |-> <<>>, abort |-> FALSE]
  /\ toneCalls = 0

\* The analyses table is empty and nothing was deleted.
StorageIdle ==
  /\ analyses = {}
  /\ lastDelete = [id |-> 0, ownerToken |-> "", result |-> "none", status |-> 0]

\* The report builder page shows its form.
PageIdle ==
  /\ ppc = "input"
  /\ reqNo = 0
  /\ srv = <<>>
  /\ clock = 0
  /\ shown = [req |-> 0, recovered |-> FALSE]

\* No PDF was asked for and no browser was launched.
PdfIdle ==
  /\ browserInstance = 0
  /\ puppeteerAvailable = "null"
  /\ chromiumExists = FALSE
  /\ browsers = <<>>
  /\ pdfCalls = <<>>

\* The parts of the server and of the page that a specification does not
\* exercise are at rest.
LaterIdle ==
  /\ RouteIdle
  /\ WrapperIdle
  /\ StorageIdle
  /\ PageIdle
  /\ PdfIdle

Init ==
  /\ PipelineInit
  /\ documentContent \in DocContents
  /\ RecoveryIdle
  /\ ClientIdle
  /\ NormalizerIdle
  /\ LaterIdle

\* ------------------------------------------------------------------ agents
\* !context.documentContent || context.documentContent.trim().length === 0
DocBlankNoTrim(content) == ~content.present \/ content.text = <<>>
DocBlank(content) ==
  ~content.present \/ content.text = <<>> \/ Len(trim(content.text)) = 0

\* docAgent && docAgent.structuredData.<list>.length > 0 dereferences
\* structuredData and the list of any truthy entry.
DerefThrows(entry) == Truthy(entry) /\ Shape(entry) # "full"

\* businessStrategyAgent.execute up to its first await: a TypeError or the
\* generation call.
StrategyPrefixThrows(map) == DerefThrows(map[DocName])

\* financialAnalystAgent.execute up to its first await.
FinancialPrefixThrows(map) ==
  DerefThrows(map[DocName]) \/ DerefThrows(map[StrategyName])

\* result.structuredData?.<list>?.length in the console.log calls throws
\* only when the value itself is null.
LogThrows(out) == Shape(out) = "null"

\* What an execute promise settles to when the service has answered r.
AgentSettles(r, recovered) ==
  IF r.kind # "text" THEN Rejected
  ELSE IF recovered.origin = "threw" THEN Rejected
  ELSE Fulfilled(recovered)

\* runAgentCrew from its call to its first await: the context is built and
\* documentIntelligenceAgent.execute runs up to its early return or its
\* generation call.
runAgentCrew ==
  /\ pc = "start"
  /\ pc' = "awaitDoc"
  /\ invocations' = [invocations EXCEPT ![DocName] = @ + 1]
  /\ IF DocBlank(documentContent)
     THEN /\ docPromise' = Fulfilled(NoDocumentOutput)
          /\ genCalls' = genCalls
     ELSE /\ docPromise' = Pending
          /\ genCalls' = [genCalls EXCEPT ![DocName] = @ + 1]
  /\ UNCHANGED <<documentContent, previousAgentOutputs, strategyPromise,
                 financialPromise, synthesisPromise, synthMessage, docOutput, strategyOutput,
                 financialOutput, synthesis, finStrategyAgent, settled, result>>
  /\ UNCHANGED throttled
  /\ UNCHANGED nonPipelineVars

\* documentIntelligenceAgent.execute after its await.
DocAgentResume(r) ==
  /\ docPromise.state = "pending"
  /\ docPromise' = AgentSettles(r, documentRecover(r.text, documentContent))
  /\ UNCHANGED <<pc, documentContent, previousAgentOutputs, strategyPromise,
                 financialPromise, synthesisPromise, synthMessage, docOutput, strategyOutput,
                 financialOutput, synthesis, finStrategyAgent, invocations,
                 genCalls, settled, result>>
  /\ throttled' = IF r.kind = "ratelimit" THEN throttled \cup {DocName} ELSE throttled
  /\ UNCHANGED nonPipelineVars

\* As StrategyAgentResume, with the async function publishing its own result
\* into the shared context.
StrategyAgentResumeWriting(r) ==
  /\ strategyPromise.state = "pending"
  /\ LET p == AgentSettles(r, strategyRecover(r.text)) IN
     /\ strategyPromise' =
          IF p.state = "fulfilled" /\ LogThrows(p.value) THEN Rejected ELSE p
     /\ previousAgentOutputs' =
          IF p.state = "fulfilled"
          THEN [previousAgentOutputs EXCEPT ![StrategyName] = p.value]
          ELSE previousAgentOutputs
  /\ settled' = Append(settled, StrategyName)
  /\ UNCHANGED <<pc, documentContent, docPromise,
                 financialPromise, synthesisPromise, synthMessage, docOutput,
                 strategyOutput, financialOutput, synthesis, finStrategyAgent,
                 invocations, genCalls, result>>
  /\ throttled' = IF r.kind = "ratelimit" THEN throttled \cup {StrategyName} ELSE throttled
  /\ UNCHANGED nonPipelineVars

\* The first async function of the Promise.all array after its await:
\* businessStrategyAgent.execute returns and the completion is logged.
StrategyAgentResume(r) ==
  /\ strategyPromise.state = "pending"
  /\ LET p == AgentSettles(r, strategyRecover(r.text)) IN
     strategyPromise' =
       IF p.state = "fulfilled" /\ LogThrows(p.value) THEN Rejected ELSE p
  /\ settled' = Append(settled, StrategyName)
  /\ UNCHANGED <<pc, documentContent, previousAgentOutputs, docPromise,
                 financialPromise, synthesisPromise, synthMessage, docOutput, strategyOutput,
                 financialOutput, synthesis, finStrategyAgent, invocations,
                 genCalls, result>>
  /\ throttled' = IF r.kind = "ratelimit" THEN throttled \cup {StrategyName} ELSE throttled
  /\ UNCHANGED nonPipelineVars

\* The second async function of the Promise.all array after its await.
FinancialAgentResume(r) ==
  /\ financialPromise.state = "pending"
  /\ LET p == AgentSettles(r, financialRecover(r.text)) IN
     financialPromise' =
       IF p.state = "fulfilled" /\ LogThrows(p.value) THEN Rejected ELSE p
  /\ settled' = Append(settled, FinancialName)
  /\ UNCHANGED <<pc, documentContent, previousAgentOutputs, docPromise,
                 strategyPromise, synthesisPromise, synthMessage, docOutput, strategyOutput,
                 financialOutput, synthesis, finStrategyAgent, invocations,
                 genCalls, result>>
  /\ throttled' = IF r.kind = "ratelimit" THEN throttled \cup {FinancialName} ELSE throttled
  /\ UNCHANGED nonPipelineVars

\* synthesizeResults after its await.
SynthesisResume(r) ==
  /\ synthesisPromise.state = "pending"
  /\ synthMessage' = r
  /\ synthesisPromise' = AgentSettles(r, synthesisRecover(r.text))
  /\ UNCHANGED <<pc, documentContent, previousAgentOutputs, docPromise,
                 strategyPromise, financialPromise, docOutput, strategyOutput,
                 financialOutput, synthesis, finStrategyAgent, invocations,
                 genCalls, settled, result>>
  /\ throttled' = IF r.kind = "ratelimit" THEN throttled \cup {SynthName} ELSE throttled
  /\ UNCHANGED nonPipelineVars

\* ------------------------------------------------------------- coordinator
\* await p: the value of a fulfilled promise, a throw for a rejected one.
AwaitSwallowing(p) == "value"
Await(p) == IF p.state = "rejected" THEN "throw" ELSE "value"

\* Promise.all([p1, p2]): rejected as soon as one element is rejected,
\* fulfilled once both are fulfilled.
PromiseAllSettledLike(p1, p2) ==
  IF Settled(p1) /\ Settled(p2) THEN "fulfilled" ELSE "pending"
PromiseAnyLike(p1, p2) ==
  IF p1.state = "rejected" \/ p2.state = "rejected" THEN "rejected"
  ELSE IF p1.state = "fulfilled" \/ p2.state = "fulfilled" THEN "fulfilled"
  ELSE "pending"
PromiseAll(p1, p2) ==
  IF p1.state = "rejected" \/ p2.state = "rejected" THEN "rejected"
  ELSE IF p1.state = "fulfilled" /\ p2.state = "fulfilled" THEN "fulfilled"
  ELSE "pending"

\* An array of results in the order in which the promises settled.
PromiseAllValuesBySettlement(p1, p2, order) ==
  IF order # <<>> /\ order[1] = FinancialName
  THEN <<p2.value, p1.value>>
  ELSE <<p1.value, p2.value>>

\* The array Promise.all fulfils with keeps the positions of the promises
\* it was given, whatever the order in which they settled.
PromiseAllValues(p1, p2, order) == <<p1.value, p2.value>>

\* const [strategyOutput, financialOutput] = await Promise.all([...])
JoinValues == PromiseAllValues(strategyPromise, financialPromise, settled)

\* runAgentCrew after await documentIntelligenceAgent.execute: the document
\* entry is written, the completion logged, and both async functions of the
\* Promise.all array run up to their first await (strategy first).
CoordAfterDoc ==
  /\ pc = "awaitDoc"
  /\ Settled(docPromise)
  /\ IF Await(docPromise) = "throw"
     THEN /\ pc' = "rejected"
          /\ UNCHANGED <<previousAgentOutputs, docOutput, strategyPromise,
                         financialPromise, finStrategyAgent, invocations,
                         genCalls, settled>>
     ELSE LET map == [previousAgentOutputs EXCEPT ![DocName] = docPromise.value] IN
          /\ docOutput' = docPromise.value
          /\ previousAgentOutputs' = map
          /\ IF LogThrows(docPromise.value)
             THEN /\ pc' = "rejected"
                  /\ UNCHANGED <<strategyPromise, financialPromise,
                                 finStrategyAgent, invocations, genCalls, settled>>
             ELSE LET sThrows == StrategyPrefixThrows(map)
                      fThrows == FinancialPrefixThrows(map)
                  IN /\ pc' = "awaitAnalysis"
                     /\ strategyPromise' = IF sThrows THEN Rejected ELSE Pending
                     /\ financialPromise' = IF fThrows THEN Rejected ELSE Pending
                     /\ finStrategyAgent' = map[StrategyName]
                     /\ invocations' = [invocations EXCEPT ![StrategyName] = @ + 1,
                                                           ![FinancialName] = @ + 1]
                     /\ genCalls' =
                          [genCalls EXCEPT
                             ![StrategyName] = IF sThrows THEN @ ELSE @ + 1,
                             ![FinancialName] = IF fThrows THEN @ ELSE @ + 1]
                     /\ settled' = (IF sThrows THEN <<StrategyName>> ELSE <<>>)
                                   \o (IF fThrows THEN <<FinancialName>> ELSE <<>>)
  /\ UNCHANGED <<documentContent, docPromise, synthesisPromise, synthMessage,
                 strategyOutput, financialOutput, synthesis, result>>
  /\ UNCHANGED throttled
  /\ UNCHANGED nonPipelineVars

\* runAgentCrew after await Promise.all: both entries are written and
\* synthesizeResults runs up to its generation call.
CoordJoin ==
  /\ pc = "awaitAnalysis"
  /\ PromiseAll(strategyPromise, financialPromise) # "pending"
  /\ IF PromiseAll(strategyPromise, financialPromise) = "rejected"
     THEN /\ pc' = "rejected"
          /\ UNCHANGED <<previousAgentOutputs, strategyOutput, financialOutput,
                         synthesisPromise, invocations, genCalls>>
     ELSE /\ pc' = "awaitSynth"
          /\ strategyOutput' = JoinValues[1]
          /\ financialOutput' = JoinValues[2]
          /\ previousAgentOutputs' =
               [previousAgentOutputs EXCEPT ![StrategyName] = JoinValues[1],
                                            ![FinancialName] = JoinValues[2]]
          /\ synthesisPromise' = Pending
          /\ invocations' = [invocations EXCEPT ![SynthName] = @ + 1]
          /\ genCalls' = [genCalls EXCEPT ![SynthName] = @ + 1]
  /\ UNCHANGED <<documentContent, docPromise, strategyPromise, financialPromise,
                 synthMessage, docOutput, synthesis, finStrategyAgent, settled,
                 result>>
  /\ UNCHANGED throttled
  /\ UNCHANGED nonPipelineVars

\* runAgentCrew after await synthesizeResults: the CrewAnalysisResult.
CoordAfterSynth ==
  /\ pc = "awaitSynth"
  /\ Settled(synthesisPromise)
  /\ IF Await(synthesisPromise) = "throw"
     THEN pc' = "rejected" /\ UNCHANGED <<synthesis, result>>
     ELSE /\ pc' = "resolved"
          /\ synthesis' = synthesisPromise.value
          /\ result' = [origin |-> "result",
                        documentIntelligence |-> docOutput,
                        businessStrategy |-> strategyOutput,
                        financialAnalysis |-> financialOutput,
                        synthesis |-> synthesisPromise.value]
  /\ UNCHANGED <<documentContent, previousAgentOutputs, docPromise,
                 strategyPromise, financialPromise, synthesisPromise,
                 synthMessage, docOutput, strategyOutput, financialOutput,
                 finStrategyAgent, invocations, genCalls, settled>>
  /\ UNCHANGED throttled
  /\ UNCHANGED nonPipelineVars

Next ==
  \/ runAgentCrew
  \/ \E r \in Responses : DocAgentResume(r)
  \/ CoordAfterDoc
  \/ \E r \in Responses : StrategyAgentResume(r)
  \/ \E r \in Responses : FinancialAgentResume(r)
  \/ CoordJoin
  \/ \E r \in Responses : SynthesisResume(r)
  \/ CoordAfterSynth

Spec == Init /\ [][Next]_vars

\* ------------------------------ Structured-Output Recovery applied alone
\* Each component's recovery applied to every response text up to MaxLen.
\* The fallback object reads only the length of the document, so one
\* non-blank document of each length stands for the others.
NonBlankContents ==
  {c \in DocContents : ~DocBlank(c) /\ \A i \in 1..Len(c.text) : c.text[i] # WS}

RecoveryInit ==
  /\ PipelineInit
  /\ documentContent \in NonBlankContents
  /\ rtext \in TextsUpTo(MaxLen)
  /\ rwho = "none"
  /\ rres = Undefined
  /\ ClientIdle
  /\ NormalizerIdle
  /\ LaterIdle

RecoverDocument ==
  /\ rwho = "none"
  /\ rwho' = DocName
  /\ rres' = documentRecover(rtext, documentContent)
  /\ UNCHANGED <<rtext>>
  /\ UNCHANGED nonRecoveryVars

RecoverStrategy ==
  /\ rwho = "none"
  /\ rwho' = StrategyName
  /\ rres' = strategyRecover(rtext)
  /\ UNCHANGED <<rtext>>
  /\ UNCHANGED nonRecoveryVars

RecoverFinancial ==
  /\ rwho = "none"
  /\ rwho' = FinancialName
  /\ rres' = financialRecover(rtext)
  /\ UNCHANGED <<rtext>>
  /\ UNCHANGED nonRecoveryVars

RecoverSynthesis ==
  /\ rwho = "none"
  /\ rwho' = SynthName
  /\ rres' = synthesisRecover(rtext)
  /\ UNCHANGED <<rtext>>
  /\ UNCHANGED nonRecoveryVars

NextRecovery ==
  \/ RecoverDocument
  \/ RecoverStrategy
  \/ RecoverFinancial
  \/ RecoverSynthesis

SpecRecovery == RecoveryInit /\ [][NextRecovery]_vars

\* ================================================================== claims
Produced(out) == out.origin \in {"early", "parsed", "fallback"}

\* C1: the stages of runAgentCrew are forward-only.  No agent or stage is
\* invoked more than once in a run; the strategy and the financial agent are
\* invoked only after the document agent has completed; synthesis is invoked
\* only after both of them have completed.
C1_ForwardOnly ==
  /\ \A s \in Stages : invocations[s] <= 1
  /\ (invocations[StrategyName] > 0 \/ invocations[FinancialName] > 0)
       => docPromise.state = "fulfilled"
  /\ invocations[SynthName] > 0
       => /\ strategyPromise.state = "fulfilled"
          /\ financialPromise.state = "fulfilled"
  /\ pc = "start" => \A s \in Stages : invocations[s] = 0
  /\ pc = "awaitDoc" => invocations[StrategyName] = 0 /\ invocations[SynthName] = 0
  /\ pc = "awaitAnalysis" => invocations[SynthName] = 0
  /\ pc \in {"awaitSynth", "resolved"} => \A s \in Stages : invocations[s] = 1

C1_Witness ==
  /\ pc = "resolved"
  /\ \A s \in Stages : invocations[s] = 1 /\ genCalls[s] = 1

\* C2: the financial-analyst agent consumes the business-strategy output:
\* once the business-strategy agent has completed, what the financial-analyst
\* agent read under the key Business Strategy Agent is that output.
C2_FinancialReadsStrategy ==
  (invocations[FinancialName] > 0 /\ strategyPromise.state = "fulfilled")
    => finStrategyAgent = strategyPromise.value

\* What the code does instead: in every run the financial-analyst agent reads
\* the key before it is written, so it never sees a strategy output.
FinancialNeverReadsStrategy == finStrategyAgent = Undefined

\* C3: the context output map is written by the Coordinator only, between
\* stages.  A step that changes previousAgentOutputs is a step of
\* runAgentCrew taken while no agent is executing, the strategy and financial
\* entries are written only when both concurrent agents have completed, and a
\* step in which an agent settles leaves the map unchanged.
AgentExecuting ==
  \E p \in {docPromise, strategyPromise, financialPromise, synthesisPromise} :
    p.state = "pending"

C3_SingleWriter ==
  [][/\ previousAgentOutputs' # previousAgentOutputs
          => /\ pc' # pc
             /\ ~AgentExecuting
             /\ (\/ previousAgentOutputs'[StrategyName] # previousAgentOutputs[StrategyName]
                 \/ previousAgentOutputs'[FinancialName] # previousAgentOutputs[FinancialName])
                  => /\ strategyPromise.state = "fulfilled"
                     /\ financialPromise.state = "fulfilled"
     /\ (\/ docPromise.state = "pending" /\ docPromise'.state # "pending"
         \/ strategyPromise.state = "pending" /\ strategyPromise'.state # "pending"
         \/ financialPromise.state = "pending" /\ financialPromise'.state # "pending"
         \/ synthesisPromise.state = "pending" /\ synthesisPromise'.state # "pending")
          => previousAgentOutputs' = previousAgentOutputs]_vars

C3_Witness ==
  /\ \A n \in AgentNames : Produced(previousAgentOutputs[n])
  /\ genCalls[StrategyName] = 1 /\ genCalls[FinancialName] = 1

\* C4: when one of the two concurrent agents fails and the other succeeds,
\* in either order, runAgentCrew fails: synthesis is never started, no
\* CrewAnalysisResult is returned, and the run is rejected or about to be.
OneFailedOneSucceeded ==
  \/ strategyPromise.state = "rejected" /\ financialPromise.state = "fulfilled"
  \/ strategyPromise.state = "fulfilled" /\ financialPromise.state = "rejected"

C4_JoinFailurePropagates ==
  OneFailedOneSucceeded
    => /\ invocations[SynthName] = 0
       /\ synthesisPromise.state = "idle"
       /\ result = NoResult
       /\ pc \in {"awaitAnalysis", "rejected"}
       /\ pc = "awaitAnalysis" => ENABLED CoordJoin

C4_Witness ==
  /\ pc = "rejected"
  /\ strategyPromise.state = "rejected"
  /\ financialPromise.state = "fulfilled"
  /\ settled = <<FinancialName, StrategyName>>

\* C5: a failure of any stage aborts the run.  After the document agent
\* failed no other agent is ever invoked; after a concurrent agent failed
\* synthesis is never invoked; after synthesis failed there is no result; a
\* result exists only when all four stages succeeded.
C5_StageFailureAborts ==
  /\ docPromise.state = "rejected"
       => /\ \A s \in Stages \ {DocName} : invocations[s] = 0 /\ genCalls[s] = 0
          /\ pc \in {"awaitDoc", "rejected"}
          /\ pc = "awaitDoc" => ENABLED CoordAfterDoc
  /\ (strategyPromise.state = "rejected" \/ financialPromise.state = "rejected")
       => /\ invocations[SynthName] = 0 /\ genCalls[SynthName] = 0
          /\ pc \in {"awaitAnalysis", "rejected"}
          /\ pc = "awaitAnalysis" => ENABLED CoordJoin
  /\ synthesisPromise.state = "rejected"
       => /\ pc \in {"awaitSynth", "rejected"}
          /\ pc = "awaitSynth" => ENABLED CoordAfterSynth
  /\ pc = "rejected" => result = NoResult
  /\ result # NoResult
       => /\ pc = "resolved"
          /\ \A p \in {docPromise, strategyPromise, financialPromise, synthesisPromise} :
               p.state = "fulfilled"
          /\ Produced(result.documentIntelligence)
          /\ Produced(result.businessStrategy)
          /\ Produced(result.financialAnalysis)
          /\ Produced(result.synthesis)

C5_Witness ==
  /\ docPromise.state = "rejected"
  /\ pc = "rejected"

\* C6: synthesis has no default.  A synthesis answer whose text does not
\* parse makes synthesizeResults fail, a fulfilled synthesis is always a
\* parsed document, and synthesis fails only after the document, strategy and
\* financial outputs have all been produced; the run then has no result.
C6_SynthesisNoDefault ==
  /\ (Settled(synthesisPromise) /\ synthMessage.kind = "text"
        /\ ~IsValidJSON(trim(StripFences(synthMessage.text))))
       => synthesisPromise.state = "rejected"
  /\ synthesisPromise.state = "fulfilled" => synthesisPromise.value.origin = "parsed"
  /\ synthesisPromise.state = "rejected"
       => /\ Produced(docOutput) /\ Produced(strategyOutput) /\ Produced(financialOutput)
          /\ \A n \in AgentNames : Produced(previousAgentOutputs[n])
          /\ result = NoResult
          /\ pc \in {"awaitSynth", "rejected"}

C6_Witness ==
  /\ synthesisPromise.state = "rejected"
  /\ synthMessage = TextResponse(<<PROSE>>)
  /\ pc = "rejected"

\* C7: for a documentContent that is absent, empty or only whitespace the
\* document agent returns confidence 0 and five empty lists and never calls
\* the text-generation service.
IsBlankContent(content) ==
  ~content.present \/ \A i \in 1..Len(content.text) : content.text[i] = WS

C7_EmptyDocument ==
  (IsBlankContent(documentContent) /\ invocations[DocName] > 0)
    => /\ genCalls[DocName] = 0
       /\ docPromise.state = "fulfilled"
       /\ docPromise.value.origin = "early"
       /\ docPromise.value.confidence = 0
       /\ docPromise.value.structuredData.keyFindings = <<>>
       /\ docPromise.value.structuredData.relevantMetrics = <<>>
       /\ docPromise.value.structuredData.strategicImplications = <<>>
       /\ docPromise.value.structuredData.riskFactors = <<>>
       /\ docPromise.value.structuredData.opportunities = <<>>

C7_Witness ==
  /\ documentContent = Document(<<WS, WS>>)
  /\ docPromise.state = "fulfilled"
  /\ docOutput = NoDocumentOutput

\* C8: for each of the three agents and every response text, recovery never
\* throws: the agent returns the parsed document or its own default.
FallbackOf(who) ==
  IF who = DocName THEN DocumentFallback(documentContent)
  ELSE IF who = StrategyName THEN StrategyFallback
  ELSE FinancialFallback

C8_RecoveryNeverThrows ==
  rwho \in AgentNames
    => /\ rres.origin # "threw"
       /\ rres.origin = "parsed" \/ rres = FallbackOf(rwho)
       /\ rres.origin = "parsed" => rres.value # <<>>

C8_Witness ==
  /\ rwho = StrategyName
  /\ LBRACE \notin {rtext[i] : i \in 1..Len(rtext)}
  /\ Len(rtext) = MaxLen
  /\ rres = StrategyFallback

\* C9 (as claimed): every malformed but brace-balanced response text that
\* contains a valid structured document as a substring is recovered as a
\* parsed document, wherever other braces occur around it.
RECURSIVE Depth(_, _)
Depth(t, i) ==
  IF i = 0 THEN 0
  ELSE Depth(t, i - 1) + (IF t[i] = LBRACE THEN 1 ELSE IF t[i] = RBRACE THEN -1 ELSE 0)

BraceBalanced(t) ==
  Depth(t, Len(t)) = 0 /\ \A i \in 1..Len(t) : Depth(t, i) >= 0

IsDocument(d) == d # <<>> /\ d[1] = LBRACE /\ IsValidJSON(d)

Malformed(t) == ~IsValidJSON(trim(StripFences(t)))

NoBraceOutside(t, i, j) ==
  \A k \in 1..Len(t) : (k < i \/ k > j) => t[k] \notin {LBRACE, RBRACE}

C9_AnyBalancedSubstring ==
  (rwho \in AgentNames /\ Malformed(rtext) /\ BraceBalanced(rtext)
     /\ \E i \in 1..Len(rtext) : \E j \in i..Len(rtext) : IsDocument(SubSeq(rtext, i, j)))
    => rres.origin = "parsed"

\* C9 (amended): a malformed response text that contains a valid structured
\* document and has no brace outside that document is recovered as exactly
\* that document.
C9_OutermostBraces ==
  rwho \in AgentNames
    => \A i \in 1..Len(rtext) : \A j \in i..Len(rtext) :
         (Malformed(rtext) /\ IsDocument(SubSeq(rtext, i, j)) /\ NoBraceOutside(rtext, i, j))
           => rres = Parsed(SelectSeq(SubSeq(rtext, i, j), LAMBDA c : c # WS))

C9_Witness ==
  /\ rwho = DocName
  /\ rtext = <<PROSE, LBRACE, RBRACE, PROSE>>
  /\ rres = Parsed(<<LBRACE, RBRACE>>)

\* C10: synthesis applies recovery steps 1 to 3 like the agents: it fails
\* only when the substring from the first opening brace to the last closing
\* brace of the cleaned text does not parse either.
C10_SynthesisTier3 ==
  (rwho = SynthName /\ rres.origin = "threw")
    => LET response == trim(StripFences(rtext))
           jsonStart == indexOf(response, LBRACE)
           jsonEnd == lastIndexOf(response, RBRACE)
       IN ~(/\ jsonStart # -1
            /\ jsonEnd > jsonStart
            /\ IsValidJSON(slice(response, jsonStart, jsonEnd + 1)))

IsObjectValue(out) == Shape(out) \in {"bare", "nolists", "full"}

FailedBeforeCall(name, p) ==
  p.state = "rejected" /\ invocations[name] = 1 /\ genCalls[name] = 0

\* C11: an output-shape error never reaches the Coordinator.  When an agent
\* was answered with a parseable object that omits structuredData or one of
\* its lists, the output past recovery still has every list field, and no
\* later agent fails before its generation call because of the missing field.
C11_ShapeErrorInvisible ==
  /\ \A p \in {docPromise, strategyPromise, financialPromise} :
       (p.state = "fulfilled" /\ IsObjectValue(p.value)) => Shape(p.value) = "full"
  /\ (docPromise.state = "fulfilled" /\ IsObjectValue(docPromise.value))
       => /\ ~FailedBeforeCall(StrategyName, strategyPromise)
          /\ ~FailedBeforeCall(FinancialName, financialPromise)

\* The second half of C11 alone: the run the missing field aborts.
C11_NoLaterAgentFails ==
  (docPromise.state = "fulfilled" /\ IsObjectValue(docPromise.value))
    => /\ ~FailedBeforeCall(StrategyName, strategyPromise)
       /\ ~FailedBeforeCall(FinancialName, financialPromise)

PromiseOf(stage) ==
  IF stage = DocName THEN docPromise
  ELSE IF stage = StrategyName THEN strategyPromise
  ELSE IF stage = FinancialName THEN financialPromise
  ELSE synthesisPromise

\* C12: a throttling failure of a stage's generation call is retried and is
\* invisible above the client when a retry succeeds: a stage whose call was
\* throttled fails only after the call was made again.
C12_TransientRetried ==
  \A stage \in throttled :
    PromiseOf(stage).state = "rejected" => genCalls[stage] > 1

\* ---------------------------------------------------------------------
\* The retrying client functions of server/anthropic.ts.
\* ---------------------------------------------------------------------

SuggestionsName == "generateSuggestions"
AnalysisName == "generateAnalysis"
ToneName == "applyToneEditor"
ClientFunctions == {SuggestionsName, AnalysisName, ToneName}

\* the retries option each function hands to pRetry
SuggestionsRetries == 3
AnalysisRetries == 5
ToneRetries == 3

Retries(fn) ==
  IF fn = SuggestionsName THEN SuggestionsRetries
  ELSE IF fn = AnalysisName THEN AnalysisRetries
  ELSE ToneRetries

\* Error messages are sequences of words; a substring test is a test for
\* a word of the message.
ErrorMessages ==
  { <<"429", "Too Many Requests">>, <<"RATELIMIT_EXCEEDED">>,
    <<"Quota", "exceeded">>, <<"Rate Limit", "reached">>,
    <<"ratelimit_exceeded">>, <<"500", "Internal Server Error">>,
    <<"Connection", "error">> }

toLowerCase(msg) ==
  [i \in 1..Len(msg) |->
     CASE msg[i] = "Quota" -> "quota"
       [] msg[i] = "Rate Limit" -> "rate limit"
       [] msg[i] = "RATELIMIT_EXCEEDED" -> "ratelimit_exceeded"
       [] msg[i] = "Connection" -> "connection"
       [] OTHER -> msg[i]]

includes(msg, word) == \E i \in 1..Len(msg) : msg[i] = word

isRateLimitError(errorMsg) ==
  \/ includes(errorMsg, "429")
  \/ includes(errorMsg, "RATELIMIT_EXCEEDED")
  \/ includes(toLowerCase(errorMsg), "quota")
  \/ includes(toLowerCase(errorMsg), "rate limit")

\* What one call of anthropic.messages.create inside a client function
\* can be answered with.
ApiError(m) == [kind |-> "error", text |-> <<>>, msg |-> m]
ClientNonText == [kind |-> "nontext", text |-> <<>>, msg |-> <<>>]
ClientText(t) == [kind |-> "text", text |-> t, msg |-> <<>>]
ClientResponses ==
  {ApiError(m) : m \in ErrorMessages} \cup {ClientNonText}
    \cup {ClientText(t) : t \in PipelineTexts}

\* How the function handed to pRetry ends.
Returned(v) == [ok |-> TRUE, value |-> v, error |-> <<>>, abort |-> FALSE]
Thrown(m) == [ok |-> FALSE, value |-> <<>>, error |-> m, abort |-> FALSE]
AbortError(m) == [ok |-> FALSE, value |-> <<>>, error |-> m, abort |-> TRUE]
NoOutcome == Thrown(<<>>)

UnexpectedResponseType == <<"Unexpected response type">>
SyntaxErrorMessage == <<"Unexpected token">>

\* generateSuggestions strips the fences off the trimmed text.
stripSuggestionFences(text) ==
  LET r0 == trim(text)
      r1 == IF startsWith(r0, <<FENCE, JSONWORD>>) THEN slice(r0, 2, Len(r0)) ELSE r0
      r2 == IF startsWith(r1, <<FENCE>>) THEN slice(r1, 1, Len(r1)) ELSE r1
      r3 == IF endsWith(r2, <<FENCE>>) THEN slice(r2, 0, Len(r2) - 1) ELSE r2
  IN trim(r3)

\* The try block of generateSuggestions.
SuggestionsTry(r) ==
  IF r.kind = "error" THEN Thrown(r.msg)
  ELSE IF r.kind = "text"
  THEN LET parsed == JSONParse(stripSuggestionFences(r.text)) IN
       IF parsed.ok THEN Returned(parsed.value) ELSE Thrown(SyntaxErrorMessage)
  ELSE Thrown(UnexpectedResponseType)

\* The try block of generateAnalysis and of applyToneEditor.
TextTry(r) ==
  IF r.kind = "error" THEN Thrown(r.msg)
  ELSE IF r.kind = "text" THEN Returned(r.text)
  ELSE Thrown(UnexpectedResponseType)

TryBlock(fn, r) == IF fn = SuggestionsName THEN SuggestionsTry(r) ELSE TextTry(r)

\* A catch block that rethrows whatever it caught.
CatchRethrowAll(tried) == tried

\* The catch block shared by the three functions: a throttling error is
\* rethrown as it is, every other error is wrapped in an AbortError.
Catch(tried) ==
  IF tried.ok THEN tried
  ELSE IF isRateLimitError(tried.error) THEN tried
  ELSE AbortError(tried.error)

\* A client function is called: pRetry runs the first attempt, which
\* suspends at its await of anthropic.messages.create.
ClientCall(fn) ==
  /\ cstatus = "idle"
  /\ cfn' = fn
  /\ cstatus' = "pending"
  /\ cattempts' = 1
  /\ UNCHANGED <<cfailures, cvalue>>
  /\ UNCHANGED nonClientVars

\* The attempt in flight is answered: the try and catch blocks run and
\* pRetry resolves, rejects (AbortError, or no retry left) or schedules
\* the next attempt.
AttemptSettles(r) ==
  /\ cstatus = "pending"
  /\ LET tried == TryBlock(cfn, r)
         out == Catch(tried)
     IN /\ cfailures' =
             IF tried.ok THEN cfailures
             ELSE Append(cfailures,
                         IF isRateLimitError(tried.error)
                         THEN "transient" ELSE "permanent")
        /\ IF out.ok
           THEN cstatus' = "fulfilled" /\ cvalue' = out
           ELSE IF out.abort \/ cattempts > Retries(cfn)
           THEN cstatus' = "rejected" /\ cvalue' = out
           ELSE cstatus' = "backoff" /\ cvalue' = cvalue
  /\ UNCHANGED <<cfn, cattempts>>
  /\ UNCHANGED nonClientVars

\* The backoff timer of pRetry fires and the next attempt is made.
RetryTimer ==
  /\ cstatus = "backoff"
  /\ cstatus' = "pending"
  /\ cattempts' = cattempts + 1
  /\ UNCHANGED <<cfn, cfailures, cvalue>>
  /\ UNCHANGED nonClientVars

ClientInit ==
  /\ PipelineInit
  /\ documentContent = NoDocument
  /\ RecoveryIdle
  /\ ClientIdle
  /\ NormalizerIdle
  /\ LaterIdle

NextClient ==
  \/ \E fn \in ClientFunctions : ClientCall(fn)
  \/ \E r \in ClientResponses : AttemptSettles(r)
  \/ RetryTimer

SpecClient == ClientInit /\ [][NextClient]_vars

AllTransient == \A i \in 1..Len(cfailures) : cfailures[i] = "transient"

\* C13: in generateSuggestions, generateAnalysis and applyToneEditor a
\* failure that isRateLimitError classifies as transient is retried up to
\* the ceiling and no further (at most retries + 1 attempts in total: 4, 6
\* and 4), after which the function fails; a failure classified as
\* permanent makes the function fail at once, without another attempt.
C13_RetryCeiling ==
  /\ cattempts <= Retries(cfn) + 1
  /\ cfn = SuggestionsName => cattempts <= 4
  /\ cfn = AnalysisName => cattempts <= 6
  /\ cfn = ToneName => cattempts <= 4
  /\ (cstatus = "rejected" /\ AllTransient) => cattempts = Retries(cfn) + 1
  /\ (cstatus = "backoff") => (AllTransient /\ cattempts <= Retries(cfn))
  /\ \A i \in 1..Len(cfailures) :
       cfailures[i] = "permanent" =>
         /\ i = Len(cfailures)
         /\ cstatus = "rejected"
         /\ cattempts = i
  /\ (Len(cfailures) = 1 /\ cfailures[1] = "permanent")
       => (cstatus = "rejected" /\ cattempts = 1)

C13_Witness ==
  /\ cfn = AnalysisName
  /\ cstatus = "rejected"
  /\ cattempts = 6
  /\ AllTransient
  /\ Len(cfailures) = 6

\* ---------------------------------------------------------------------
\* The Result Normalizer: convertCrewResultToAnalysis (orchestrator.ts)
\* and the use-case mapping of the /api/analyze route built on it.
\* ---------------------------------------------------------------------

MaxUseCases == 2
MaxNodes == 2
MaxFindings == 2

\* An optional numeric field and an optional string field of an entry.
Absent == [def |-> FALSE, n |-> 0]
Num(n) == [def |-> TRUE, n |-> n]
NoString == [def |-> FALSE, s |-> <<>>]
Str(s) == [def |-> TRUE, s |-> s]

\* x || d for a numeric field: undefined and 0 are falsy.
OrNumber(x, d) == IF x.def /\ x.n # 0 THEN x.n ELSE d

MathMin(a, b) == IF a < b THEN a ELSE b

\* Math.max that returns its second argument.
MathMaxSecond(a, b) == b

MathMax(a, b) == IF a > b THEN a ELSE b

\* A use case of financialAnalysis.structuredData.useCases; horizon "" is
\* a horizon that is undefined or the empty string. isNull marks a list
\* entry that is null instead of an object.
UseCase(h, savings, tax, just) ==
  [isNull |-> FALSE, horizon |-> h, projectedSavings |-> savings,
   trustTaxPercent |-> tax, documentJustification |-> just,
   paybackMonths |-> Absent]
NullUseCase ==
  [isNull |-> TRUE, horizon |-> "", projectedSavings |-> Absent,
   trustTaxPercent |-> Absent, documentJustification |-> NoString,
   paybackMonths |-> Absent]

\* A node of businessStrategy.structuredData.cognitiveNodes; cognitiveLoad
\* "" is a load that is undefined or the empty string.
Node(potential, evidence) ==
  [isNull |-> FALSE, automationPotential |-> potential,
   documentEvidence |-> evidence, cognitiveLoad |-> ""]
NullNode ==
  [isNull |-> TRUE, automationPotential |-> Absent, documentEvidence |-> NoString,
   cognitiveLoad |-> ""]

\* documentIntelligence: the lists of its structuredData, their entries
\* named by their position; structuredData may be missing altogether.
DocData(nf, nm, no) ==
  [structuredData |-> TRUE,
   keyFindings |-> [i \in 1..nf |-> i],
   relevantMetrics |-> [i \in 1..nm |-> i],
   opportunities |-> [i \in 1..no |-> i]]
NoStructuredData ==
  [structuredData |-> FALSE, keyFindings |-> <<>>, relevantMetrics |-> <<>>,
   opportunities |-> <<>>]

CrewResult(doc, nodes, ucs) ==
  [documentIntelligence |-> doc,
   businessStrategy |-> [cognitiveNodes |-> nodes],
   financialAnalysis |-> [useCases |-> ucs]]

\* A citation: the existing text, or the pool entry built from the named
\* entry of a document list, or undefined.
Citation(kind, item, text) == [kind |-> kind, item |-> item, text |-> text]
NoCitation == Citation("undefined", 0, <<>>)
IsExisting(x) == x.def /\ Len(x.s) > 0 /\ Len(trim(x.s)) > 0

evidencePool(keyFindings, opportunities) ==
  [i \in 1..Len(keyFindings) |-> Citation("finding", keyFindings[i], <<>>)]
    \o [i \in 1..Len(opportunities) |-> Citation("opportunity", opportunities[i], <<>>)]

injectDocumentEvidence(nodeIndex, existingEvidence, keyFindings, opportunities) ==
  IF IsExisting(existingEvidence)
  THEN Citation("existing", 0, existingEvidence.s)
  ELSE IF ~(Len(keyFindings) > 0) THEN NoCitation
  ELSE LET pool == evidencePool(keyFindings, opportunities) IN
       IF Len(pool) > 0 THEN pool[(nodeIndex % Len(pool)) + 1]
       ELSE Citation("benchmark", 0, <<>>)

justificationPool(relevantMetrics, keyFindings) ==
  [i \in 1..Len(relevantMetrics) |-> Citation("metric", relevantMetrics[i], <<>>)]
    \o [i \in 1..MathMin(3, Len(keyFindings)) |->
          Citation("finding", keyFindings[i], <<>>)]

\* As injectDocumentJustification, always taking the head of the pool.
injectDocumentJustificationFirst(ucIndex, existingJustification, relevantMetrics, keyFindings) ==
  IF IsExisting(existingJustification)
  THEN Citation("existing", 0, existingJustification.s)
  ELSE IF ~(Len(keyFindings) > 0) THEN NoCitation
  ELSE LET pool == justificationPool(relevantMetrics, keyFindings) IN
       IF Len(pool) > 0 THEN pool[1]
       ELSE Citation("benchmark", 0, <<>>)

injectDocumentJustification(ucIndex, existingJustification, relevantMetrics, keyFindings) ==
  IF IsExisting(existingJustification)
  THEN Citation("existing", 0, existingJustification.s)
  ELSE IF ~(Len(keyFindings) > 0) THEN NoCitation
  ELSE LET pool == justificationPool(relevantMetrics, keyFindings) IN
       IF Len(pool) > 0 THEN pool[(ucIndex % Len(pool)) + 1]
       ELSE Citation("benchmark", 0, <<>>)

\* useCases.filter(u => u.horizon === h)
HorizonCases(useCases, h) == SelectSeq(useCases, LAMBDA u : u.horizon = h)

\* cases.reduce((sum, u) => sum + (u.projectedSavings || 0), 0)
RECURSIVE SumSavings(_)
SumSavings(cases) ==
  IF cases = <<>> THEN 0
  ELSE OrNumber(Head(cases).projectedSavings, 0) + SumSavings(Tail(cases))

\* Reading a property of a null list entry throws a TypeError: in the
\* horizon filters for a use case, in the map callback for a node.
ConvertThrows(cognitiveNodes, useCases) ==
  \/ \E i \in 1..Len(useCases) : useCases[i].isNull
  \/ \E i \in 1..Len(cognitiveNodes) : cognitiveNodes[i].isNull

\* The fields of the result that depend on the input; the remaining ones
\* (names, descriptions, costs, the summary texts) are copied or replaced
\* by a constant default, field by field.
convertCrewResultToAnalysis(crew) ==
  LET doc == crew.documentIntelligence
      useCases == crew.financialAnalysis.useCases
      cognitiveNodes == crew.businessStrategy.cognitiveNodes
      keyFindings == IF doc.structuredData THEN doc.keyFindings ELSE <<>>
      relevantMetrics == IF doc.structuredData THEN doc.relevantMetrics ELSE <<>>
      opportunities == IF doc.structuredData THEN doc.opportunities ELSE <<>>
      hasDocument == Len(keyFindings) > 0
      h1Cases == HorizonCases(useCases, "H1")
      h2Cases == HorizonCases(useCases, "H2")
      h3Cases == HorizonCases(useCases, "H3")
  IN IF ConvertThrows(cognitiveNodes, useCases) THEN [threw |-> TRUE]
     ELSE
     [threw |-> FALSE,
      value |->
       [cognitiveNodes |->
          [idx \in 1..Len(cognitiveNodes) |->
             [automationPotential |->
                MathMax(0, MathMin(100,
                  OrNumber(cognitiveNodes[idx].automationPotential, 50))),
              cognitiveLoad |-> IF cognitiveNodes[idx].cognitiveLoad # ""
                                THEN cognitiveNodes[idx].cognitiveLoad ELSE "medium",
              documentEvidence |->
                injectDocumentEvidence(idx - 1, cognitiveNodes[idx].documentEvidence,
                                       keyFindings, opportunities)]],
        useCases |->
          [idx \in 1..Len(useCases) |->
             [horizon |-> IF useCases[idx].horizon # ""
                          THEN useCases[idx].horizon ELSE "H1",
              savingsAmount |-> OrNumber(useCases[idx].projectedSavings, 0),
              paybackMonths |-> OrNumber(useCases[idx].paybackMonths, 12),
              trustTaxPercent |->
                MathMax(0, MathMin(100,
                  OrNumber(useCases[idx].trustTaxPercent, 20))),
              documentJustification |->
                injectDocumentJustification(idx - 1,
                  useCases[idx].documentJustification, relevantMetrics, keyFindings)]],
        horizonsSummary |->
          [h1Count |-> Len(h1Cases), h2Count |-> Len(h2Cases),
           h3Count |-> Len(h3Cases),
           h1Savings |-> SumSavings(h1Cases), h2Savings |-> SumSavings(h2Cases),
           h3Savings |-> SumSavings(h3Cases)],
        documentInsights |-> hasDocument]]

\* The inputs the normalizer is applied to.
ListsUpTo(S, n) == UNION {[1..k -> S] : k \in 0..n}

Horizons == {"", "H1", "H2", "H3", "H4"}

UseCaseSamples ==
  {UseCase(h, Num(7), Absent, NoString) : h \in Horizons}
  \cup {UseCase("H2", Absent, Absent, NoString)}
  \cup {UseCase("H1", Num(7), tax, NoString) :
          tax \in {Num(0 - 5), Num(0), Num(250)}}
  \cup {UseCase("H1", Num(7), Absent, just) : just \in {Str(<<WS>>), Str(<<"j">>)}}
  \cup {NullUseCase}

NodeSamples ==
  {Node(potential, NoString) :
     potential \in {Absent, Num(0 - 5), Num(0), Num(70), Num(250)}}
  \cup {Node(Num(70), evidence) : evidence \in {Str(<<WS>>), Str(<<"e">>)}}
  \cup {NullNode}

\* Inputs for the scores the route derives: loads, savings, payback
\* periods and trust taxes that are missing, negative, small and very large.
ScoreNodeSamples ==
  {[Node(potential, NoString) EXCEPT !.cognitiveLoad = load] :
     potential \in {Num(95), Num(100)}, load \in {"high", "medium", "low", "extreme"}}

ScoreUseCaseSamples ==
  {[UseCase("H1", savings, tax, NoString) EXCEPT !.paybackMonths = payback] :
     savings \in {Absent, Num(0 - 50000), Num(40000), Num(1000000)},
     tax \in {Absent, Num(100)},
     payback \in {Num(0 - 8), Num(1), Num(2), Num(400)}}

DocOutputs ==
  {NoStructuredData}
  \cup {DocData(nf, nm, no) : nf \in 0..MaxFindings, nm \in {0, 2}, no \in {0, 1}}

CrewResults ==
  {CrewResult(doc, nodes, <<>>) :
     doc \in DocOutputs, nodes \in ListsUpTo(NodeSamples, MaxNodes)}
  \cup {CrewResult(doc, <<>>, ucs) :
          doc \in DocOutputs, ucs \in ListsUpTo(UseCaseSamples, MaxUseCases)}
  \cup {CrewResult(doc, <<node>>, <<uc>>) :
          doc \in DocOutputs, node \in NodeSamples, uc \in UseCaseSamples}
  \cup {CrewResult(NoStructuredData, <<node>>, <<uc>>) :
          node \in ScoreNodeSamples, uc \in ScoreUseCaseSamples}

\* const crewAnalysis = convertCrewResultToAnalysis(crewResult): a throw
\* leaves the handler through its catch.
Normalize ==
  /\ npc = "idle"
  /\ LET out == convertCrewResultToAnalysis(crewResult) IN
     IF out.threw
     THEN npc' = "threw" /\ fused' = fused
     ELSE npc' = "returned" /\ fused' = out.value
  /\ UNCHANGED <<crewResult, routeUseCases, routeNodes>>
  /\ UNCHANGED nonNormalizerVars

\* Math.round of the fraction n / d, d positive: ties go up.
MathRound(n, d) == (2 * n + d) \div (2 * d)

\* A clamp that only caps the value.
clampUpperOnly(val, lo, hi) == MathMin(hi, val)

\* clamp of the route: Math.max(min, Math.min(max, val || min))
clamp(val, lo, hi) == MathMax(lo, MathMin(hi, IF val # 0 THEN val ELSE lo))

\* rawNodes.map(...) and rawUseCases.map(...) of the route: the loads of
\* each node, the horizon number, the bounded trust tax and the scores of
\* each use case. Math.round(7 - trustTax / 15) is written as the rounding
\* of the fraction (105 - trustTax) / 15.
RouteMapAnalysis ==
  /\ npc = "returned"
  /\ npc' = "mapped"
  /\ routeNodes' =
       [i \in 1..Len(fused.cognitiveNodes) |->
          LET node == fused.cognitiveNodes[i]
              automationPotential ==
                clamp(IF node.automationPotential # 0
                      THEN node.automationPotential ELSE 50, 0, 100)
          IN [humanCognitiveLoad |->
                clamp(IF node.cognitiveLoad = "high" THEN 9
                      ELSE IF node.cognitiveLoad = "medium" THEN 6 ELSE 3, 1, 10),
              aiCognitiveLoad |->
                clamp(MathRound(100 - automationPotential, 10), 1, 10)]]
  /\ routeUseCases' =
       [i \in 1..Len(fused.useCases) |->
          LET uc == fused.useCases[i]
              trustTax == clamp(IF uc.trustTaxPercent # 0
                                THEN uc.trustTaxPercent ELSE 20, 0, 100)
              savings == IF uc.savingsAmount # 0 THEN uc.savingsAmount ELSE 50000
              payback == IF uc.paybackMonths # 0 THEN uc.paybackMonths ELSE 12
          IN [horizon |-> IF uc.horizon = "H1" THEN 1
                          ELSE IF uc.horizon = "H2" THEN 2 ELSE 3,
              trustTax |-> trustTax,
              dataReadiness |-> clamp(MathRound(105 - trustTax, 15), 1, 10),
              businessValue |-> clamp(MathRound(savings, 25000) + 3, 1, 10),
              implementationRisk |-> clamp(MathRound(payback, 4), 1, 10)]]
  /\ UNCHANGED <<crewResult, fused>>
  /\ UNCHANGED nonNormalizerVars

NormalizerInit ==
  /\ PipelineInit
  /\ documentContent = NoDocument
  /\ RecoveryIdle
  /\ ClientIdle
  /\ crewResult \in CrewResults
  /\ npc = "idle"
  /\ fused = Undefined
  /\ routeUseCases = <<>>
  /\ routeNodes = <<>>
  /\ LaterIdle

NextNormalizer ==
  \/ Normalize
  \/ RouteMapAnalysis

SpecNormalizer == NormalizerInit /\ [][NextNormalizer]_vars

NormalizerReturned == npc \in {"returned", "mapped"}

InNodes == crewResult.businessStrategy.cognitiveNodes
InUseCases == crewResult.financialAnalysis.useCases
InDoc == crewResult.documentIntelligence

\* C14: whatever number arrives upstream, negative or far above the range,
\* every cognitive node of the result has its automationPotential within
\* 0..100 and every use case its trustTaxPercent within 0..100.
C14_PercentagesBounded ==
  NormalizerReturned =>
    /\ \A i \in 1..Len(fused.cognitiveNodes) :
         fused.cognitiveNodes[i].automationPotential \in 0..100
    /\ \A i \in 1..Len(fused.useCases) :
         fused.useCases[i].trustTaxPercent \in 0..100

C14_Witness ==
  /\ npc = "returned"
  /\ Len(InNodes) = 1 /\ Len(InUseCases) = 1
  /\ InNodes[1].automationPotential = Num(0 - 5)
  /\ fused.cognitiveNodes[1].automationPotential = 0
  /\ InUseCases[1].trustTaxPercent = Num(250)
  /\ fused.useCases[1].trustTaxPercent = 100

Recognized == {"H1", "H2", "H3"}

\* C15: after normalization every use case is tagged H1, H2 or H3; a use
\* case whose upstream horizon is absent or unrecognized is tagged H1 by
\* convertCrewResultToAnalysis and by the route mapping built on it.
C15_HorizonTags ==
  /\ NormalizerReturned =>
       \A i \in 1..Len(fused.useCases) :
         /\ fused.useCases[i].horizon \in Recognized
         /\ InUseCases[i].horizon \notin Recognized
              => fused.useCases[i].horizon = "H1"
  /\ npc = "mapped" =>
       \A i \in 1..Len(routeUseCases) :
         InUseCases[i].horizon \notin Recognized => routeUseCases[i].horizon = 1

Tagged(h) == SelectSeq(fused.useCases, LAMBDA u : u.horizon = h)

RECURSIVE SumAmounts(_)
SumAmounts(cases) ==
  IF cases = <<>> THEN 0
  ELSE Head(cases).savingsAmount + SumAmounts(Tail(cases))

\* C16: the horizon summary is a partition of the normalized use cases:
\* the three counts add up to the number of use cases, each count is the
\* number of output use cases tagged with that horizon and each savings
\* figure is the sum of savingsAmount over exactly those use cases.
C16_HorizonPartition ==
  NormalizerReturned =>
    LET hs == fused.horizonsSummary IN
    /\ hs.h1Count + hs.h2Count + hs.h3Count = Len(fused.useCases)
    /\ hs.h1Count = Len(Tagged("H1"))
    /\ hs.h2Count = Len(Tagged("H2"))
    /\ hs.h3Count = Len(Tagged("H3"))
    /\ hs.h1Savings = SumAmounts(Tagged("H1"))
    /\ hs.h2Savings = SumAmounts(Tagged("H2"))
    /\ hs.h3Savings = SumAmounts(Tagged("H3"))

\* The scenario of C17: two use cases, exactly one of them with an
\* existing justification, and a document output with two relevant metrics.
TwoUseCasesTwoMetrics ==
  /\ NormalizerReturned
  /\ Len(InUseCases) = 2
  /\ IsExisting(InUseCases[1].documentJustification)
       # IsExisting(InUseCases[2].documentJustification)
  /\ InDoc.structuredData
  /\ Len(InDoc.relevantMetrics) = 2

ExistingKept(i) ==
  fused.useCases[i].documentJustification
    = Citation("existing", 0, InUseCases[i].documentJustification.s)

AnyDocumentEvidence ==
  /\ InDoc.structuredData
  /\ \/ Len(InDoc.keyFindings) > 0
     \/ Len(InDoc.opportunities) > 0
     \/ Len(InDoc.relevantMetrics) > 0

\* C18: whenever the document output holds any evidence (a key finding, an
\* opportunity or a relevant metric), every cognitive node and every use
\* case of the result carries a citation.
C18_EveryItemCited ==
  (NormalizerReturned /\ AnyDocumentEvidence) =>
    /\ \A i \in 1..Len(fused.cognitiveNodes) :
         fused.cognitiveNodes[i].documentEvidence.kind # "undefined"
    /\ \A i \in 1..Len(fused.useCases) :
         fused.useCases[i].documentJustification.kind # "undefined"

\* C20: convertCrewResultToAnalysis returns a result for every input, also
\* for one in which an entry of a list is not of the expected shape.
C20_NeverThrows == npc # "threw"

\* ---------------------------------------------------------------------
\* The /api/analyze handler (registerRoutes): the race of runAgentCrew
\* against the deadline, the processing of the result, the save and the
\* response.
\* ---------------------------------------------------------------------

\* The handler is entered: the body is validated and, for a valid profile,
\* the timer is armed; runAgentCrew is called next.
AnalyzeStart(valid, save, token) ==
  /\ hpc = "idle"
  /\ request' = [valid |-> valid, saveAnalysis |-> save, ownerToken |-> token]
  /\ IF valid
     THEN hpc' = "racing" /\ resStatus' = resStatus
     ELSE hpc' = "responded" /\ resStatus' = 400
  /\ UNCHANGED <<expired, saveState>>
  /\ UNCHANGED nonRouteVars

\* The setTimeout callback rejects timeoutPromise. Nothing cancels the
\* timer or the pipeline; once runAgentCrew has settled the race is
\* decided and the timer no longer matters.
TimeoutFires ==
  /\ hpc = "racing"
  /\ pc \notin {"start", "resolved", "rejected"}
  /\ ~expired
  /\ expired' = TRUE
  /\ UNCHANGED <<hpc, request, saveState, resStatus>>
  /\ UNCHANGED nonRouteVars

\* A race that waits for runAgentCrew alone.
PromiseRaceCrewOnly(crew, timedOut) ==
  IF crew = "resolved" THEN "value"
  ELSE IF crew = "rejected" THEN "throw"
  ELSE "pending"

\* Promise.race([runAgentCrew(...), timeoutPromise]) as the handler's
\* await sees it: it settles as whichever of the two settled first.
PromiseRace(crew, timedOut) ==
  IF timedOut THEN "throw"
  ELSE IF crew = "resolved" THEN "value"
  ELSE IF crew = "rejected" THEN "throw"
  ELSE "pending"

\* The handler resumes from its await of the race: with crewResult, or in
\* the outer catch, which answers 500.
AnalyzeResume ==
  /\ hpc = "racing"
  /\ PromiseRace(pc, expired) # "pending"
  /\ IF PromiseRace(pc, expired) = "value"
     THEN hpc' = "processing" /\ resStatus' = resStatus
     ELSE hpc' = "responded" /\ resStatus' = 500
  /\ UNCHANGED <<request, expired, saveState>>
  /\ UNCHANGED nonRouteVars

SavingApplies == request.saveAnalysis /\ request.ownerToken

\* A response that reports a failed save as a failure.
StatusAfterSaveStrict(saved) == IF saved THEN 200 ELSE 500

\* The catch around storage.createAnalysis logs and falls through to
\* res.json({success: true, result}).
StatusAfterSave(saved) == 200

\* crewResult is normalized and mapped (a throw there answers 500); then
\* the analysis is saved first when saving applies, or answered at once.
AnalyzeProcess(ok) ==
  /\ hpc = "processing"
  /\ IF ~ok
     THEN hpc' = "responded" /\ resStatus' = 500 /\ saveState' = saveState
     ELSE IF SavingApplies
     THEN hpc' = "saving" /\ resStatus' = resStatus /\ saveState' = "pending"
     ELSE hpc' = "responded" /\ resStatus' = 200 /\ saveState' = saveState
  /\ UNCHANGED <<request, expired>>
  /\ UNCHANGED nonRouteVars

\* await storage.createAnalysis(...) settles and the response is sent.
SaveSettles(saved) ==
  /\ hpc = "saving"
  /\ saveState' = IF saved THEN "saved" ELSE "failed"
  /\ hpc' = "responded"
  /\ resStatus' = StatusAfterSave(saved)
  /\ UNCHANGED <<request, expired>>
  /\ UNCHANGED nonRouteVars

\* The pipeline runs once the handler has called it, whatever the handler
\* does meanwhile.
CrewCalled == hpc # "idle" /\ request.valid

RouteInit ==
  /\ PipelineInit
  /\ documentContent \in {NoDocument, Document(<<"d">>)}
  /\ RecoveryIdle
  /\ ClientIdle
  /\ NormalizerIdle
  /\ LaterIdle

NextRoute ==
  \/ \E valid, save, token \in BOOLEAN : AnalyzeStart(valid, save, token)
  \/ TimeoutFires
  \/ AnalyzeResume
  \/ \E ok \in BOOLEAN : AnalyzeProcess(ok)
  \/ \E saved \in BOOLEAN : SaveSettles(saved)
  \/ CrewCalled /\ Next

SpecRoute == RouteInit /\ [][NextRoute]_vars

\* C21: storage.createAnalysis is invoked only for a run that resolved
\* before the deadline; for a run that aborts, by a failed stage or by the
\* deadline, nothing is persisted, also when the pipeline completes later.
C21_PersistOnlyAfterSuccess ==
  /\ saveState # "none" => (pc = "resolved" /\ ~expired /\ SavingApplies)
  /\ (expired \/ pc = "rejected") => saveState = "none"
  /\ resStatus \in {400, 500} => saveState = "none"

C21_Witness ==
  /\ expired
  /\ pc = "resolved"
  /\ hpc = "responded"
  /\ resStatus = 500
  /\ SavingApplies
  /\ saveState = "none"

\* C22: once the deadline has expired the pipeline makes no further stage
\* transition and starts no further agent or generation call.
C22_ExpiryStopsPipeline ==
  [][expired => UNCHANGED <<pc, invocations, genCalls>>]_vars

\* C23: when saving applies, the save has been attempted and has settled
\* before the success response is sent, and a failed save still ends in
\* the success response.
C23_SaveSettledBeforeResponse ==
  /\ (resStatus = 200 /\ SavingApplies) => saveState \in {"saved", "failed"}
  /\ saveState = "pending" => resStatus = 0
  /\ (saveState = "failed" /\ hpc = "responded") => resStatus = 200

C23_Witness ==
  /\ SavingApplies
  /\ hpc = "responded"
  /\ saveState = "failed"
  /\ resStatus = 200

\* The arguments runAgentCrew hands to synthesizeResults, from which the
\* synthesis prompt is built.
SynthesisArguments == <<docOutput, strategyOutput, financialOutput>>

JoinPassed == pc \in {"awaitSynth", "resolved"}

\* C24: the join of the two concurrent agents is not a race: the result of
\* runAgentCrew, the context map and what the synthesis prompt is built
\* from are the two agents' own outputs, each in its own place, whichever
\* of the two completed first.
C24_JoinOrderIrrelevant ==
  /\ JoinPassed =>
       /\ previousAgentOutputs[StrategyName] = strategyPromise.value
       /\ previousAgentOutputs[FinancialName] = financialPromise.value
       /\ SynthesisArguments
            = <<docPromise.value, strategyPromise.value, financialPromise.value>>
  /\ pc = "resolved" =>
       /\ result.businessStrategy = strategyPromise.value
       /\ result.financialAnalysis = financialPromise.value

C24_Witness ==
  /\ pc = "resolved"
  /\ settled = <<FinancialName, StrategyName>>
  /\ strategyPromise.value.origin = "parsed"
  /\ financialPromise.value.origin = "fallback"
  /\ result.businessStrategy = strategyPromise.value

\* ---------------------------------------------------------------------
\* generateAnalysisWithToneEdit (server/anthropic.ts): generateAnalysis,
\* then applyToneEditor, each a pRetry run of the client above.
\* ---------------------------------------------------------------------

\* The function is called and calls generateAnalysis(prompt), whose first
\* attempt suspends at its await.
generateAnalysisWithToneEdit ==
  /\ wpc = "idle"
  /\ cstatus = "idle"
  /\ wpc' = "step1"
  /\ cfn' = AnalysisName
  /\ cstatus' = "pending"
  /\ cattempts' = 1
  /\ UNCHANGED <<cfailures, cvalue, rawAnalysis, wvalue, toneCalls>>
  /\ UNCHANGED nonClientWrapperVars

\* await generateAnalysis(prompt) settles: a rejection leaves the function,
\* a value is kept as rawAnalysis and applyToneEditor(rawAnalysis) is
\* called.
ToneEditAfterAnalysis ==
  /\ wpc = "step1"
  /\ cstatus \in {"fulfilled", "rejected"}
  /\ IF cstatus = "rejected"
     THEN /\ wpc' = "rejected"
          /\ wvalue' = cvalue
          /\ UNCHANGED <<rawAnalysis, toneCalls, clientVars>>
     ELSE /\ wpc' = "step2"
          /\ rawAnalysis' = cvalue.value
          /\ toneCalls' = toneCalls + 1
          /\ cfn' = ToneName
          /\ cstatus' = "pending"
          /\ cattempts' = 1
          /\ cfailures' = <<>>
          /\ cvalue' = NoOutcome
          /\ UNCHANGED wvalue
  /\ UNCHANGED nonClientWrapperVars

\* A catch block that lets the tone editor's failure out.
ToneEditCatchRethrow(raw, failure) == failure

\* catch (error): the raw analysis is returned.
ToneEditCatch(raw, failure) == Returned(raw)

\* await applyToneEditor(rawAnalysis) settles.
ToneEditAfterTone ==
  /\ wpc = "step2"
  /\ cstatus \in {"fulfilled", "rejected"}
  /\ wvalue' = IF cstatus = "fulfilled" THEN Returned(cvalue.value)
               ELSE ToneEditCatch(rawAnalysis, cvalue)
  /\ wpc' = IF wvalue'.ok THEN "resolved" ELSE "rejected"
  /\ UNCHANGED <<rawAnalysis, toneCalls, clientVars>>
  /\ UNCHANGED nonClientWrapperVars

ToneEditInit ==
  /\ PipelineInit
  /\ documentContent = NoDocument
  /\ RecoveryIdle
  /\ ClientIdle
  /\ NormalizerIdle
  /\ LaterIdle

NextToneEdit ==
  \/ generateAnalysisWithToneEdit
  \/ \E r \in ClientResponses : AttemptSettles(r)
  \/ RetryTimer
  \/ ToneEditAfterAnalysis
  \/ ToneEditAfterTone

SpecToneEdit == ToneEditInit /\ [][NextToneEdit]_vars

\* C25: generateAnalysisWithToneEdit degrades only on its second step: when
\* generateAnalysis fails the function fails and the tone editor is never
\* called; when generateAnalysis succeeded and applyToneEditor fails, after
\* its own retries, the function returns the raw analysis unchanged.
C25_DegradesOnSecondStepOnly ==
  /\ (wpc = "step1" /\ cstatus = "rejected") => toneCalls = 0
  /\ wpc = "rejected" =>
       /\ toneCalls = 0
       /\ cfn = AnalysisName /\ cstatus = "rejected"
       /\ ~wvalue.ok
  /\ wpc \in {"step2", "resolved"} => (cfn = ToneName /\ toneCalls = 1)
  /\ (wpc = "resolved" /\ cstatus = "rejected") =>
       (wvalue.ok /\ wvalue.value = rawAnalysis)
  /\ (wpc = "resolved" /\ cstatus = "fulfilled") =>
       (wvalue.ok /\ wvalue.value = cvalue.value)

C25_Witness ==
  /\ wpc = "resolved"
  /\ cfn = ToneName
  /\ cstatus = "rejected"
  /\ cattempts = ToneRetries + 1
  /\ rawAnalysis = WellFormed
  /\ wvalue = Returned(rawAnalysis)

\* C26: whatever the upstream numbers, missing, zero, negative or very
\* large, the scores the /api/analyze mapping gives every node and every
\* use case (humanCognitiveLoad, aiCognitiveLoad, dataReadiness,
\* businessValue, implementationRisk) are integers within 1..10.
C26_ScoresBounded ==
  npc = "mapped" =>
    /\ \A i \in 1..Len(routeNodes) :
         /\ routeNodes[i].humanCognitiveLoad \in 1..10
         /\ routeNodes[i].aiCognitiveLoad \in 1..10
    /\ \A i \in 1..Len(routeUseCases) :
         /\ routeUseCases[i].dataReadiness \in 1..10
         /\ routeUseCases[i].businessValue \in 1..10
         /\ routeUseCases[i].implementationRisk \in 1..10

C26_Witness ==
  /\ npc = "mapped"
  /\ Len(routeNodes) = 1 /\ Len(routeUseCases) = 1
  /\ InNodes[1].automationPotential = Num(100)
  /\ routeNodes[1].aiCognitiveLoad = 1
  /\ InUseCases[1].projectedSavings = Num(0 - 50000)
  /\ routeUseCases[1].businessValue = 1
  /\ InUseCases[1].paybackMonths = Num(400)
  /\ routeUseCases[1].implementationRisk = 10
  /\ InUseCases[1].trustTaxPercent = Num(100)
  /\ routeUseCases[1].dataReadiness = 1

\* C27: clamping is the identity on values within the range: an upstream
\* automationPotential or trustTaxPercent within 0..100, 0 and 100
\* included, is the value convertCrewResultToAnalysis outputs.
InRange(x) == x.def /\ x.n \in 0..100

C27_ClampIdentityInRange ==
  NormalizerReturned =>
    /\ \A i \in 1..Len(fused.cognitiveNodes) :
         InRange(InNodes[i].automationPotential) =>
           fused.cognitiveNodes[i].automationPotential
             = InNodes[i].automationPotential.n
    /\ \A i \in 1..Len(fused.useCases) :
         InRange(InUseCases[i].trustTaxPercent) =>
           fused.useCases[i].trustTaxPercent = InUseCases[i].trustTaxPercent.n

\* ---------------------------------------------------------------------
\* DatabaseStorage (createAnalysis, getAnalysesByOwner, deleteAnalysis)
\* and the DELETE /api/analyses/:id route.
\* ---------------------------------------------------------------------

MaxIds == 3

AnalysisIds == 1..MaxIds
OwnerTokens == {"t1", "t2"}

Row(id, token, at) == [id |-> id, ownerToken |-> token, createdAt |-> at]

\* db.insert(analyses).values(analysis): id is the primary key and
\* created_at defaults to now().
insertAnalysis(rows, id, token) == rows \cup {Row(id, token, clock)}

createAnalysis(id, token) ==
  /\ \A a \in analyses : a.id # id
  /\ analyses' = insertAnalysis(analyses, id, token)
  /\ UNCHANGED lastDelete
  /\ UNCHANGED nonStorageVars

\* A where clause on the id alone.
deleteWhereId(rows, id, token) == {a \in rows : a.id = id}

\* where(and(eq(analyses.id, id), eq(analyses.ownerToken, ownerToken)))
deleteWhere(rows, id, token) ==
  {a \in rows : a.id = id /\ a.ownerToken = token}

\* deleteAnalysis: the rows left and result.length > 0.
deleteAnalysis(rows, id, token) ==
  [rows |-> rows \ deleteWhere(rows, id, token),
   result |-> IF deleteWhere(rows, id, token) # {} THEN "true" ELSE "false"]

\* The route: 400 without the x-owner-token header, 404 when nothing was
\* deleted, success otherwise.
DeleteAnalysisRoute(id, token) ==
  /\ IF token = ""
     THEN /\ lastDelete' = [id |-> id, ownerToken |-> token,
                            result |-> "none", status |-> 400]
          /\ UNCHANGED analyses
     ELSE LET deleted == deleteAnalysis(analyses, id, token) IN
          /\ analyses' = deleted.rows
          /\ lastDelete' = [id |-> id, ownerToken |-> token,
                            result |-> deleted.result,
                            status |-> IF deleted.result = "true" THEN 200 ELSE 404]
  /\ UNCHANGED nonStorageVars

StorageInit ==
  /\ PipelineInit
  /\ documentContent = NoDocument
  /\ RecoveryIdle
  /\ ClientIdle
  /\ NormalizerIdle
  /\ LaterIdle

NextStorage ==
  \/ \E id \in AnalysisIds, token \in OwnerTokens : createAnalysis(id, token)
  \/ \E id \in AnalysisIds, token \in OwnerTokens \cup {""} :
       DeleteAnalysisRoute(id, token)

SpecStorage == StorageInit /\ [][NextStorage]_vars

\* C30: a saved analysis is deleted only with the owner token it was saved
\* under: deleteAnalysis(id, token) removes the record and returns true
\* only when a record with that id and that owner token exists; otherwise
\* it returns false, the stored analyses are unchanged and the route
\* answers 404.
C30_DeleteOnlyByOwner ==
  [][(lastDelete' # lastDelete /\ lastDelete'.ownerToken # "") =>
       LET id == lastDelete'.id
           token == lastDelete'.ownerToken
       IN IF \E a \in analyses : a.id = id /\ a.ownerToken = token
          THEN /\ lastDelete'.result = "true"
               /\ lastDelete'.status = 200
               /\ analyses' = {a \in analyses : a.id # id}
          ELSE /\ lastDelete'.result = "false"
               /\ lastDelete'.status = 404
               /\ analyses' = analyses]_vars

C30_Witness ==
  /\ lastDelete.result = "false"
  /\ lastDelete.status = 404
  /\ \E a \in analyses :
       a.id = lastDelete.id /\ a.ownerToken # lastDelete.ownerToken

\* ---------------------------------------------------------------------
\* The report builder page: analysisMutation and its timeout recovery
\* against /api/analyses/latest.  srv[r] is the server's handling of the
\* page's r-th request, reqNo the request the page is waiting for, clock
\* the time in minutes, shown the analysis on display.
\* ---------------------------------------------------------------------
MaxClock == 6
FiveMinutes == 5

\* The owner token of the page, kept in localStorage.
PageToken == "t1"

\* handleSubmit: analysisMutation.mutate posts /api/analyze.
PageSubmit ==
  /\ ppc = "input"
  /\ reqNo < MaxIds
  /\ reqNo' = reqNo + 1
  /\ srv' = Append(srv, "running")
  /\ ppc' = "waiting"
  /\ UNCHANGED <<analyses, lastDelete, clock, shown>>
  /\ UNCHANGED nonStoragePageVars

\* The server's handler for request r comes to its end, whether or not
\* the page still waits for it: it saves the analysis under the owner
\* token (saved), finishes without a row (saving is off or the insert
\* failed), or fails.
ServerFinishes(r, outcome) ==
  /\ r \in DOMAIN srv
  /\ srv[r] = "running"
  /\ srv' = [srv EXCEPT ![r] = outcome]
  /\ analyses' = IF outcome = "saved"
                 THEN insertAnalysis(analyses, r, PageToken)
                 ELSE analyses
  /\ UNCHANGED <<lastDelete, ppc, reqNo, clock, shown>>
  /\ UNCHANGED nonStoragePageVars

\* onSuccess: the response of the request arrives with its result.
PageSuccess ==
  /\ ppc = "waiting"
  /\ srv[reqNo] \in {"saved", "done"}
  /\ shown' = [req |-> reqNo, recovered |-> FALSE]
  /\ ppc' = "complete"
  /\ UNCHANGED <<analyses, lastDelete, reqNo, srv, clock>>
  /\ UNCHANGED nonStoragePageVars

\* onError: the request is rejected.  isTimeout is what the three
\* includes() tests make of the error message; a connection can drop at
\* any point of the server's work, an error answer needs a failed handler.
PageError(isTimeout) ==
  /\ ppc = "waiting"
  /\ isTimeout \/ srv[reqNo] = "failed"
  /\ ppc' = IF isTimeout /\ PageToken # "" THEN "recovering" ELSE "input"
  /\ UNCHANGED <<analyses, lastDelete, reqNo, srv, clock, shown>>
  /\ UNCHANGED nonStoragePageVars

\* getAnalysesByOwner: the owner's rows, newest first; allAnalyses[0] is
\* any row no other row of the owner is newer than.
getAnalysesByOwner(rows, token) == {a \in rows : a.ownerToken = token}

LatestOf(rows, token) ==
  {a \in getAnalysesByOwner(rows, token) :
     \A b \in getAnalysesByOwner(rows, token) : b.createdAt <= a.createdAt}

\* analysisTime > Date.now() - 5 * 60 * 1000
IsRecent(createdAt, now) == createdAt > now - FiveMinutes

\* The recovery of onError: after the wait the page fetches
\* /api/analyses/latest; a recent latest analysis is displayed as the
\* recovered result, otherwise (404, an old analysis, a failed fetch) the
\* page returns to its form.
PageRecover(fetched) ==
  /\ ppc = "recovering"
  /\ IF fetched /\ LatestOf(analyses, PageToken) # {}
     THEN \E latest \in LatestOf(analyses, PageToken) :
            IF IsRecent(latest.createdAt, clock)
            THEN /\ shown' = [req |-> latest.id, recovered |-> TRUE]
                 /\ ppc' = "complete"
            ELSE /\ ppc' = "input"
                 /\ UNCHANGED shown
     ELSE /\ ppc' = "input"
          /\ UNCHANGED shown
  /\ UNCHANGED <<analyses, lastDelete, reqNo, srv, clock>>
  /\ UNCHANGED nonStoragePageVars

\* handleReset: back to the form, nothing on display.
PageReset ==
  /\ ppc = "complete"
  /\ ppc' = "input"
  /\ shown' = [req |-> 0, recovered |-> FALSE]
  /\ UNCHANGED <<analyses, lastDelete, reqNo, srv, clock>>
  /\ UNCHANGED nonStoragePageVars

\* A minute passes.
Tick ==
  /\ clock < MaxClock
  /\ clock' = clock + 1
  /\ UNCHANGED <<analyses, lastDelete, ppc, reqNo, srv, shown>>
  /\ UNCHANGED nonStoragePageVars

PageInit ==
  /\ PipelineInit
  /\ documentContent = NoDocument
  /\ RecoveryIdle
  /\ ClientIdle
  /\ NormalizerIdle
  /\ LaterIdle

NextPage ==
  \/ PageSubmit
  \/ \E r \in AnalysisIds, outcome \in {"saved", "done", "failed"} :
       ServerFinishes(r, outcome)
  \/ PageSuccess
  \/ \E isTimeout \in BOOLEAN : PageError(isTimeout)
  \/ \E fetched \in BOOLEAN : PageRecover(fetched)
  \/ PageReset
  \/ Tick

SpecPage == PageInit /\ [][NextPage]_vars

\* C28: after a request ends in a timeout or a connection error, the
\* analysis the recovery displays as recovered is one produced and saved
\* by that same request, never one saved by an earlier request of the
\* same owner token.
C28_RecoversOwnRequestOnly ==
  shown.recovered => shown.req = reqNo

\* ---------------------------------------------------------------------
\* The PDF generator: generatePdfFromUrl / generatePdfFromHtml calls that
\* share browserInstance through getBrowser.  A browser is named by its
\* index in browsers; pdfCalls[c] is the position of the c-th call and
\* the browser getBrowser returned to it.
\* ---------------------------------------------------------------------
MaxCalls == 3

PdfCall(at, browser) == [pc |-> at, browser |-> browser]

PdfAt(c, at) == c \in DOMAIN pdfCalls /\ pdfCalls[c].pc = at

PdfGoto(c, at, browser) ==
  pdfCalls' = [pdfCalls EXCEPT ![c] = PdfCall(at, browser)]

\* generatePdfFromUrl / generatePdfFromHtml is called: getBrowser calls
\* checkPuppeteerAvailable, which answers from its cache or awaits the
\* import of fs.
GeneratePdf ==
  /\ Len(pdfCalls) < MaxCalls
  /\ pdfCalls' = Append(pdfCalls,
                        PdfCall(IF puppeteerAvailable # "null"
                                THEN "checked" ELSE "importFs", 0))
  /\ UNCHANGED <<browserInstance, puppeteerAvailable, chromiumExists, browsers>>
  /\ UNCHANGED nonPdfVars

\* checkPuppeteerAvailable after the import: puppeteerAvailable =
\* fs.existsSync(chromiumPath).
CheckPuppeteerAvailable(c) ==
  /\ PdfAt(c, "importFs")
  /\ puppeteerAvailable' = IF chromiumExists THEN "true" ELSE "false"
  /\ PdfGoto(c, "checked", 0)
  /\ UNCHANGED <<browserInstance, chromiumExists, browsers>>
  /\ UNCHANGED nonPdfVars

\* !browserInstance || !browserInstance.connected
NeedsLaunch(instance, launched) ==
  instance = 0 \/ launched[instance] # "connected"

\* getBrowser after await checkPuppeteerAvailable(): it throws when
\* Chromium is missing, awaits the import of puppeteer when there is no
\* connected browserInstance, and returns browserInstance otherwise.
GetBrowserTest(c) ==
  /\ PdfAt(c, "checked")
  /\ IF puppeteerAvailable # "true"
     THEN PdfGoto(c, "failed", 0)
     ELSE IF NeedsLaunch(browserInstance, browsers)
          THEN PdfGoto(c, "importPuppeteer", 0)
          ELSE PdfGoto(c, "newPage", browserInstance)
  /\ UNCHANGED <<browserInstance, puppeteerAvailable, chromiumExists, browsers>>
  /\ UNCHANGED nonPdfVars

\* puppeteer.default.launch(...) is called.
LaunchStarts(c) ==
  /\ PdfAt(c, "importPuppeteer")
  /\ PdfGoto(c, "launching", 0)
  /\ UNCHANGED <<browserInstance, puppeteerAvailable, chromiumExists, browsers>>
  /\ UNCHANGED nonPdfVars

\* The launch settles.  Launched, the new browser is assigned to
\* browserInstance and getBrowser returns browserInstance; a failed launch
\* rejects the call.
LaunchSettles(c, launched) ==
  /\ PdfAt(c, "launching")
  /\ IF launched
     THEN /\ browsers' = Append(browsers, "connected")
          /\ browserInstance' = Len(browsers) + 1
          /\ PdfGoto(c, "newPage", Len(browsers) + 1)
     ELSE /\ PdfGoto(c, "failed", 0)
          /\ UNCHANGED <<browserInstance, browsers>>
  /\ UNCHANGED <<puppeteerAvailable, chromiumExists>>
  /\ UNCHANGED nonPdfVars

\* browser.newPage() and the rendering: the call ends with the PDF, or
\* with an error when its browser is gone.
RenderPdf(c) ==
  /\ PdfAt(c, "newPage")
  /\ PdfGoto(c, IF browsers[pdfCalls[c].browser] = "connected"
                THEN "done" ELSE "failed",
             pdfCalls[c].browser)
  /\ UNCHANGED <<browserInstance, puppeteerAvailable, chromiumExists, browsers>>
  /\ UNCHANGED nonPdfVars

\* A launched browser crashes or is killed: connected turns false.
Disconnect(b) ==
  /\ b \in DOMAIN browsers
  /\ browsers[b] = "connected"
  /\ browsers' = [browsers EXCEPT ![b] = "disconnected"]
  /\ UNCHANGED <<browserInstance, puppeteerAvailable, chromiumExists, pdfCalls>>
  /\ UNCHANGED nonPdfVars

PdfInit ==
  /\ PipelineInit
  /\ documentContent = NoDocument
  /\ RecoveryIdle
  /\ ClientIdle
  /\ NormalizerIdle
  /\ RouteIdle
  /\ WrapperIdle
  /\ StorageIdle
  /\ PageIdle
  /\ browserInstance = 0
  /\ puppeteerAvailable = "null"
  /\ chromiumExists \in BOOLEAN
  /\ browsers = <<>>
  /\ pdfCalls = <<>>

NextPdf ==
  \/ GeneratePdf
  \/ \E c \in 1..MaxCalls : CheckPuppeteerAvailable(c)
  \/ \E c \in 1..MaxCalls : GetBrowserTest(c)
  \/ \E c \in 1..MaxCalls : LaunchStarts(c)
  \/ \E c \in 1..MaxCalls, launched \in BOOLEAN : LaunchSettles(c, launched)
  \/ \E c \in 1..MaxCalls : RenderPdf(c)
  \/ \E b \in 1..MaxCalls : Disconnect(b)

SpecPdf == PdfInit /\ [][NextPdf]_vars

Launching == {c \in DOMAIN pdfCalls : pdfCalls[c].pc = "launching"}

Connected == {b \in DOMAIN browsers : browsers[b] = "connected"}

\* C29: the PDF generator keeps a single shared browser: for any
\* interleaving of concurrent generatePdf calls at most one browser is
\* launched while a connected browserInstance exists or a launch is in
\* progress, so no launched browser is left unreferenced.
C29_SingleSharedBrowser ==
  /\ Cardinality(Launching) + Cardinality(Connected) <= 1
  /\ \A b \in Connected : b = browserInstance

====
